---- MODULE Spec2Model ----
(***************************************************************************)
(* Abbreviation tracker of the Emmet plugin for Nova.                      *)
(*                                                                         *)
(* The tracker (src/src/main.ts, the AbbreviationTracker part) keeps, per  *)
(* document, a range [start, end) that is meant to hold the abbreviation   *)
(* the user is typing.  It is driven by the editor's change and selection  *)
(* callbacks.                                                              *)
(*                                                                         *)
(* Spec       : handleChange and handleSelectionChange registered as the   *)
(*              editor's change and selection callbacks, the wiring of the *)
(*              test suite (test/autocomplete.ts, test/assets/simutator.ts)*)
(*              and of the first completion provider; startTracking and    *)
(*              stopTracking are called by a client, forced or not.        *)
(*                                                                         *)
(* PolicySpec : initAbbreviationTracker (src/unnamed/part_011) registered  *)
(*              on the editor: the change callback runs handleChange and   *)
(*              then decides to start or to stop tracking; the selection   *)
(*              callback records the caret.                                *)
(*                                                                         *)
(* The host is the Nova editor as declared in src/types/nova/index.d.ts:   *)
(* getTextInRange throws for a range that exceeds the document, and edit() *)
(* throws when it is called from within a change callback.  An exception   *)
(* ends the running callback and leaves the assignments made so far.       *)
(*                                                                         *)
(* Offsets are 0-based as in the source; a document is a sequence of       *)
(* one-character strings, so offset i addresses element i + 1.             *)
(***************************************************************************)
EXTENDS Integers, Sequences, FiniteSets, TLC

VARIABLES
    content,    \* text of the document (editor stub: `content`)
    caret,      \* editor.selectedRange.start, the offset getCaret() returns
    cache,      \* registry: document uri -> AbbreviationTracker
    lastPos,    \* initAbbreviationTracker: caret recorded by the last callback
    syntax,     \* editor.document.syntax
    enabled,    \* configuration key emmet.enable-completions
    last        \* history: the last host event and what its callbacks did

vars == <<content, caret, cache, lastPos, syntax, enabled, last>>

\* ---------------------------------------------------------------- bounds
MaxLen == 3         \* longest document an edit may produce, Spec
PolicyMaxLen == 5   \* longest document an edit may produce, PolicySpec
MaxSel == 2         \* longest selection the user makes
MaxEdits == 3       \* edits the user makes under PolicySpec
ForcedMaxLen == 3   \* longest document an edit may produce, ForcedSpec
CssMaxLen == 4      \* longest generated stylesheet source, CssSpec
RegistryMaxLen == 1 \* longest document an edit may produce, RegistrySpec
HtmlMaxLen == 2     \* most pieces of a generated markup document, HtmlSpec
StartMaxLen == 2    \* longest document a character is typed into, StartSpec
StopMaxLen == 3     \* longest document with a tracker before the edit, StopSpec

\* ------------------------------------------------------------- alphabet
\* `d` abbreviates a stylesheet property, `x` does not
Letters == {"d", "x"}
\* texts one edit inserts in Spec: a typed character or a pasted word
Texts == {<<"d">>, <<"[">>, <<"d", "d">>}
\* and in PolicySpec
PolicyTexts == {<<"d">>, <<" ">>, <<"d", "d">>}
Syntaxes == {"html", "pug"}
Null == -1
\* `[` typed with the closing bracket inserted by the host
PairedText == <<"[", "]">>
tabStop == "￼"
Doc == "editor0"

Min(a, b) == IF a < b THEN a ELSE b
Max(a, b) == IF a > b THEN a ELSE b

\* ------------------------------------------------------------------ host
\* the characters [from, to) of a text, for 0 <= from <= to <= Len(s)
slice(s, from, to) == IF from >= to THEN <<>> ELSE SubSeq(s, from + 1, to)

sliceFrom(s, from) == slice(s, Min(from, Len(s)), Len(s))

\* TextEditorEdit.insert(pos, text)
editInsert(c, pos, text) == slice(c, 0, pos) \o text \o sliceFrom(c, pos)

\* TextEditorEdit.delete(range)
editDelete(c, from, to) == slice(c, 0, from) \o sliceFrom(c, to)

\* getTextInRange throws for a range that exceeds the document
inBounds(c, range) ==
    /\ 0 <= range[1] /\ range[1] <= Len(c)
    /\ 0 <= range[2] /\ range[2] <= Len(c)

getCaret(w) == w.caret

substr(c, range) == slice(c, range[1], range[2])

\* where the host puts an offset p when [from, to) is deleted
moveAfterDelete(p, from, to) ==
    IF p <= from THEN p
    ELSE IF p >= to THEN p - (to - from) ELSE from

\* ------------------------------------------------- abbreviation parser
\* The Emmet parser and expander are external to the repository.  They are
\* abstracted by a deterministic scanner over the model's alphabet: a space
\* or a closing bracket outside of an attribute list, a nested opening
\* bracket, a `<`, a line break or a tab stop is a syntax error at its
\* offset; an attribute list left open is an error at the end of the text.
RECURSIVE scanAbbr(_, _, _)
scanAbbr(s, i, depth) ==
    IF i > Len(s)
    THEN IF depth > 0 THEN Len(s) ELSE -1
    ELSE LET ch == s[i] IN
         CASE ch = "[" -> IF depth > 0 THEN i - 1 ELSE scanAbbr(s, i + 1, 1)
           [] ch = "]" -> IF depth = 0 THEN i - 1 ELSE scanAbbr(s, i + 1, 0)
           [] ch = " " -> IF depth = 0 THEN i - 1 ELSE scanAbbr(s, i + 1, depth)
           [] ch \in {"<", "\n", "\r", tabStop} -> i - 1
           [] OTHER -> scanAbbr(s, i + 1, depth)

\* expand() with the preview configuration: the element's markup
expand(abbr) == <<"<">> \o abbr \o <<">">>

isSimpleMarkupAbbreviation(abbr) ==
    \A i \in 1..Len(abbr) : abbr[i] # ">"

NullAbbr == [type |-> "null"]

parseAbbreviation(abbr) ==
    LET errPos == scanAbbr(abbr, 1, 0) IN
    IF errPos < 0
    THEN [type |-> "abbreviation", abbr |-> abbr,
          simple |-> isSimpleMarkupAbbreviation(abbr),
          preview |-> expand(abbr)]
    ELSE [type |-> "error", abbr |-> abbr, pos |-> errPos]

\* the same for options of the type stylesheet: stylesheetAbbreviation, and
\* simple stays false.  expand() with the preview configuration: `d` is the
\* snippet of display, `!` the important modifier; a name that matches no
\* snippet is put out as a property without a value
parseStylesheetAbbreviation(abbr) ==
    LET errPos == scanAbbr(abbr, 1, 0) IN
    IF errPos < 0
    THEN [type |-> "abbreviation", abbr |-> abbr, simple |-> FALSE,
          preview |->
            CASE abbr = <<"d">> ->
                    <<"d", "i", "s", "p", "l", "a", "y", ":", " ",
                      "b", "l", "o", "c", "k", ";">>
              [] abbr = <<"!">> ->
                    <<"!", "i", "m", "p", "o", "r", "t", "a", "n", "t">>
              [] OTHER -> abbr \o <<":", " ", ";">>]
    ELSE [type |-> "error", abbr |-> abbr, pos |-> errPos]

\* ------------------------------------------------------------- tracker
NoCache == [d \in {} |-> 0]

hasTracker(c) == Doc \in DOMAIN c

getTracker(c) == c[Doc]

setTracker(t) == [d \in {Doc} |-> t]

\* UserConfig: options not given; given by getActivationContext for an HTML
\* dialect (with output options); given for any other markup (type only).
\* Options of the type stylesheet have the field scope, options.context.name
NoOptions == [type |-> "undefined", output |-> FALSE]
MarkupOptions == [type |-> "markup", output |-> TRUE]
BareOptions == [type |-> "markup", output |-> FALSE]

\* new AbbreviationTracker(start, pos, length, forced), with the options and
\* the offset startTracking assigns from its params
newTracker(start, pos, length, forced, offset, options) ==
    [lastPos |-> pos, lastLength |-> length, range |-> <<start, pos>>,
     offset |-> offset, forced |-> forced, options |-> options,
     abbreviation |-> NullAbbr]

\* variant: only the end of the range is moved
shift_endOnly(t, offset) ==
    [t EXCEPT !.range = <<t.range[1], t.range[2] + offset>>]

shift(t, offset) ==
    [t EXCEPT !.range = <<t.range[1] + offset, t.range[2] + offset>>]

\* variant: a tracker that is extended is forced no longer
extend_unforcing(t, size) ==
    [t EXCEPT !.range = <<t.range[1], t.range[2] + size>>, !.forced = FALSE]

extend(t, size) ==
    [t EXCEPT !.range = <<t.range[1], t.range[2] + size>>]

\* variant: an empty range accepted whether or not the tracker is forced
isValidRange_ignoresForced(t) == t.range[1] <= t.range[2]

isValidRange(t) ==
    t.range[1] < t.range[2] \/ (t.range[1] = t.range[2] /\ t.forced)

\* updateAbbreviation(editor) runs to its end: substr does not throw, and
\* options that were given have the output options whose field it replaces
canUpdate(t, c) ==
    /\ inBounds(c, t.range)
    /\ t.options.type # "undefined" => t.options.output

\* updateAbbreviation(editor), where canUpdate
updateAbbreviation(t, c) ==
    LET abbr == sliceFrom(substr(c, t.range), t.offset)
        t1   == IF t.options.type = "undefined"
                THEN [t EXCEPT !.options = MarkupOptions]
                ELSE t
    IN  IF abbr = <<>>
        THEN [t1 EXCEPT !.abbreviation = NullAbbr]
        ELSE IF t1.options.type = "stylesheet"
        THEN [t1 EXCEPT !.abbreviation = parseStylesheetAbbreviation(abbr)]
        ELSE [t1 EXCEPT !.abbreviation = parseAbbreviation(abbr)]

contains(t, pos) == pos >= t.range[1] /\ pos <= t.range[2]

\* replaceWithSnippet(editor, range, ''): the edit is accepted for a range
\* of the document and rejected (the promise fails) for any other range
replaceWithSnippet(w, range) ==
    IF inBounds(w.content, range) /\ range[1] <= range[2]
    THEN [w EXCEPT !.content = editInsert(editDelete(w.content, range[1], range[2]), range[1], <<>>),
                   !.caret = moveAfterDelete(w.caret, range[1], range[2])]
    ELSE w

\* startTracking(editor, start, pos, {offset, options, forced}); threw:
\* updateAbbreviation has thrown, before cache.set
startTracking(w, start, pos, forced, offset, options) ==
    LET tracker == newTracker(start, pos, Len(w.content), forced, offset, options) IN
    IF canUpdate(tracker, w.content)
    THEN [w |-> [w EXCEPT !.cache = setTracker(updateAbbreviation(tracker, w.content))],
          threw |-> FALSE]
    ELSE [w |-> w, threw |-> TRUE]

\* variant: the entry is not deleted from the registry
stopTracking_keepsEntry(w, skipRemove, inChange) == [w |-> w, threw |-> FALSE]

\* stopTracking(editor, skipRemove); inChange: called from within a change
\* callback, where editor.edit() throws before the entry is deleted
stopTracking(w, skipRemove, inChange) ==
    IF hasTracker(w.cache)
    THEN LET tracker == getTracker(w.cache) IN
         IF tracker.forced /\ ~skipRemove
         THEN IF inChange
              THEN [w |-> w, threw |-> TRUE]
              ELSE [w |-> [replaceWithSnippet(w, tracker.range) EXCEPT !.cache = NoCache],
                    threw |-> FALSE]
         ELSE [w |-> [w EXCEPT !.cache = NoCache], threw |-> FALSE]
    ELSE [w |-> w, threw |-> FALSE]

\* variant: an insertion at the left edge of the range does not extend it
adjustRange_exclusiveStart(t, lastPos_, delta) ==
    IF delta < 0
    THEN IF lastPos_ = t.range[1]
         THEN shift(t, delta)
         ELSE IF t.range[1] < lastPos_ /\ lastPos_ <= t.range[2]
              THEN extend(t, delta)
              ELSE t
    ELSE IF delta > 0 /\ t.range[1] < lastPos_ /\ lastPos_ <= t.range[2]
         THEN extend(t, delta)
         ELSE t

\* the adjustment handleChange makes to the range for an edit of size delta
adjustRange(t, lastPos_, delta) ==
    IF delta < 0
    THEN IF lastPos_ = t.range[1]
         THEN shift(t, delta)
         ELSE IF t.range[1] < lastPos_ /\ lastPos_ <= t.range[2]
              THEN extend(t, delta)
              ELSE t
    ELSE IF delta > 0 /\ t.range[1] <= lastPos_ /\ lastPos_ <= t.range[2]
         THEN extend(t, delta)
         ELSE t

\* the result of a stopTracking call made by handleChange
stopped(w, res) ==
    LET s == stopTracking(w, FALSE, TRUE)
    IN  [w |-> s.w, res |-> IF s.threw THEN "threw" ELSE res]

\* variant: the length of the document is not stored in the tracker
handleChange_keepsLength(w) ==
    IF ~hasTracker(w.cache)
    THEN [w |-> w, res |-> "none"]
    ELSE LET tracker == getTracker(w.cache)
             lastPos_ == tracker.lastPos
             range    == tracker.range
         IN
         IF lastPos_ < range[1] \/ lastPos_ > range[2]
         THEN stopped(w, "outside")
         ELSE LET lastAbbr == tracker.abbreviation
                  length   == Len(w.content)
                  pos      == getCaret(w)
                  delta    == length - tracker.lastLength
                  t1 == [tracker EXCEPT !.lastPos = pos]
                  t2 == adjustRange(t1, lastPos_, delta)
                  w2 == [w EXCEPT !.cache = setTracker(t2)]
              IN
              IF ~isValidRange(t2)
              THEN stopped(w2, "invalid")
              ELSE IF ~canUpdate(t2, w.content)
              THEN [w |-> w2, res |-> "threw"]
              ELSE LET t3 == updateAbbreviation(t2, w.content)
                       w3 == [w EXCEPT !.cache = setTracker(t3)]
                   IN
                   IF /\ t3.abbreviation.type = "error"
                      /\ lastAbbr.type = "abbreviation"
                      /\ t3.abbreviation.abbr = lastAbbr.preview
                   THEN stopped(w3, "expanded")
                   ELSE [w |-> w3, res |-> "kept"]

\* handleChange(editor), run as (part of) a change callback: the world after
\* the call and what the call did: "none" (no tracker), "outside", "invalid",
\* "expanded" (tracker removed on that path, nothing returned), "kept"
\* (tracker returned) or "threw" (left by an exception)
handleChange(w) ==
    IF ~hasTracker(w.cache)
    THEN [w |-> w, res |-> "none"]
    ELSE LET tracker == getTracker(w.cache)
             lastPos_ == tracker.lastPos
             range    == tracker.range
         IN
         IF lastPos_ < range[1] \/ lastPos_ > range[2]
         THEN stopped(w, "outside")
         ELSE LET lastAbbr == tracker.abbreviation
                  length   == Len(w.content)
                  pos      == getCaret(w)
                  delta    == length - tracker.lastLength
                  t1 == [tracker EXCEPT !.lastLength = length, !.lastPos = pos]
                  t2 == adjustRange(t1, lastPos_, delta)
                  w2 == [w EXCEPT !.cache = setTracker(t2)]
              IN
              IF ~isValidRange(t2)
              THEN stopped(w2, "invalid")
              ELSE IF ~canUpdate(t2, w.content)
              THEN [w |-> w2, res |-> "threw"]
              ELSE LET t3 == updateAbbreviation(t2, w.content)
                       w3 == [w EXCEPT !.cache = setTracker(t3)]
                   IN
                   IF /\ t3.abbreviation.type = "error"
                      /\ lastAbbr.type = "abbreviation"
                      /\ t3.abbreviation.abbr = lastAbbr.preview
                   THEN stopped(w3, "expanded")
                   ELSE [w |-> w3, res |-> "kept"]

\* variant: the range is made to end at the caret as well
handleSelectionChange_movesEnd(w, caret_) ==
    IF hasTracker(w.cache)
    THEN LET t == getTracker(w.cache) IN
         [w EXCEPT !.cache = setTracker([t EXCEPT !.lastPos = caret_,
                                                  !.range = <<t.range[1], Max(t.range[1], caret_)>>])]
    ELSE w

handleSelectionChange(w, caret_) ==
    IF hasTracker(w.cache)
    THEN [w EXCEPT !.cache = setTracker([getTracker(w.cache) EXCEPT !.lastPos = caret_])]
    ELSE w

\* ------------------------------------------------------------ host events
World == [content |-> content, caret |-> caret, cache |-> cache]

Become(w) ==
    /\ content' = w.content
    /\ caret' = w.caret
    /\ cache' = w.cache

\* Edits are followed up to the first exception that leaves handleChange (the
\* registry then holds a tracker the callback has left half updated); caret
\* moves are followed after it as well.
Running == ~last.halted

\* the delta handleChange computes for the new text c
Delta(c) == IF hasTracker(cache) THEN Len(c) - getTracker(cache).lastLength ELSE 0

\* op: the event; res: what handleChange did in it ("none" where it did not
\* run); delta: the change of the document's length that handleChange saw;
\* ctx, started: what startAbbreviationTracking did in it; halted: an
\* exception has left handleChange; edits: the edits made under PolicySpec;
\* shown: the messages the event has shown to the user; before: the tracker
\* handleChange found in the registry
History(op, res, c, ctx, started) ==
    [op |-> op, res |-> res, delta |-> Delta(c), ctx |-> ctx,
     started |-> started, halted |-> last.halted \/ res = "threw",
     edits |-> last.edits, shown |-> <<>>,
     before |-> IF res # "none" /\ hasTracker(cache)
                THEN getTracker(cache) ELSE NullAbbr]

\* the text after the host has replaced the n selected characters by text
Replaced(n, text) == editInsert(editDelete(content, caret, caret + n), caret, text)

\* the edits of the user: the text and the caret the host leaves
\* text typed or pasted over a selection of n characters
inputEdit(n, text) ==
    [op |-> "input", c |-> Replaced(n, text), pos |-> caret + Len(text)]

\* `[` typed, the host inserts the closing bracket: caret between the two
pairedEdit(n) ==
    [op |-> "paired", c |-> Replaced(n, PairedText), pos |-> caret + 1]

\* Backspace: removes the selection, or the character before the caret
backspaceEdit(n) ==
    IF n = 0
    THEN [op |-> "backspace", c |-> editDelete(content, caret - 1, caret), pos |-> caret - 1]
    ELSE [op |-> "backspace", c |-> Replaced(n, <<>>), pos |-> caret]

\* Delete: removes the selection, or the character after the caret
delEdit(n) ==
    IF n = 0
    THEN [op |-> "del", c |-> editDelete(content, caret, caret + 1), pos |-> caret]
    ELSE [op |-> "del", c |-> Replaced(n, <<>>), pos |-> caret]

canInput(n, size, max) ==
    /\ Running
    /\ caret + n <= Len(content)
    /\ Len(content) - n + size <= max

canBackspace(n) ==
    /\ Running
    /\ caret + n <= Len(content)
    /\ n = 0 => caret > 0

canDel(n) ==
    /\ Running
    /\ caret + n <= Len(content)
    /\ n = 0 => caret < Len(content)

\* -------------------------------------------------------------------- Spec
\* the host has made edit e: it calls the change callback, handleChange, and
\* then the selection callback, handleSelectionChange
Deliver(e) ==
    LET w0 == [content |-> e.c, caret |-> e.pos, cache |-> cache]
        r  == handleChange(w0)
        w2 == handleSelectionChange(r.w, getCaret(r.w))
    IN  /\ Become(IF r.res = "threw" THEN r.w ELSE w2)
        /\ last' = History(e.op, r.res, e.c, "notcalled", FALSE)
        /\ UNCHANGED <<lastPos, syntax, enabled>>

input(n, text) == canInput(n, Len(text), MaxLen) /\ Deliver(inputEdit(n, text))

inputPaired(n) == canInput(n, 2, MaxLen) /\ Deliver(pairedEdit(n))

backspace(n) == canBackspace(n) /\ Deliver(backspaceEdit(n))

del(n) == canDel(n) /\ Deliver(delEdit(n))

\* the user moves the caret: the host calls the selection callback
select(pos) ==
    /\ Become(handleSelectionChange([World EXCEPT !.caret = pos], pos))
    /\ last' = History("select", "none", content, "notcalled", FALSE)
    /\ UNCHANGED <<lastPos, syntax, enabled>>

\* a client calls startTracking(editor, start, pos, {forced}), pos being the
\* current caret position and start <= pos
StartTracking(start, pos, forced) ==
    /\ Running
    /\ ~hasTracker(cache)
    /\ Become(startTracking(World, start, pos, forced, 0, NoOptions).w)
    /\ last' = History("start", "none", content, "notcalled", FALSE)
    /\ UNCHANGED <<lastPos, syntax, enabled>>

\* the user runs emmet.clear-marker: stopTracking(editor)
StopTracking ==
    /\ Running
    /\ hasTracker(cache)
    /\ Become(stopTracking(World, FALSE, FALSE).w)
    /\ last' = History("stop", "none", content, "notcalled", FALSE)
    /\ UNCHANGED <<lastPos, syntax, enabled>>

Init ==
    /\ content = <<"d">>
    /\ caret = 1
    /\ cache = NoCache
    /\ lastPos = Null
    /\ syntax = "html"
    /\ enabled = TRUE
    /\ last = [op |-> "init", res |-> "none", delta |-> 0, ctx |-> "notcalled",
               started |-> FALSE, halted |-> FALSE, edits |-> 0,
               shown |-> <<>>, before |-> NullAbbr]

Next ==
    \/ \E n \in 0..MaxSel, text \in Texts : input(n, text)
    \/ \E n \in 0..MaxSel : inputPaired(n)
    \/ \E n \in 0..MaxSel : backspace(n)
    \/ \E n \in 0..MaxSel : del(n)
    \/ \E pos \in 0..Len(content) : select(pos)
    \/ \E start \in 0..caret, forced \in BOOLEAN :
          (start < caret \/ forced) /\ StartTracking(start, caret, forced)
    \/ StopTracking

Spec == Init /\ [][Next]_vars

\* ------------------------------------------------------------- PolicySpec
\* src/lib/syntax.ts
xmlSyntaxes == {"xml", "xsl"}
htmlSyntaxes == {"html", "vue", "html+erb", "php", "njk", "nunj", "blade", "svelte", "twig"}
cssSyntaxes == {"css", "scss", "less"}
jsxSyntaxes == {"jsx", "tsx"}
markupSyntaxes == {"haml", "jade", "pug", "slim"} \cup htmlSyntaxes \cup xmlSyntaxes \cup jsxSyntaxes
stylesheetSyntaxes == {"sass", "sss", "stylus", "postcss"} \cup cssSyntaxes

isXML(syn) == syn \in xmlSyntaxes \/ syn \in jsxSyntaxes
isHTML(syn) == syn \in htmlSyntaxes \/ isXML(syn)
isSupported(syn) == syn \in markupSyntaxes \/ syn \in stylesheetSyntaxes
isCSS(syn) == syn \in cssSyntaxes
isJSX(syn) == syn \in jsxSyntaxes

JSX_PREFIX == "<"
pairs == [ch \in {"{", "[", "("} |-> CASE ch = "{" -> "}" [] ch = "[" -> "]" [] ch = "(" -> ")"]
pairsEnd == {pairs[ch] : ch \in DOMAIN pairs}

\* the character classes of reWordBound, reJSXAbbrStart, reStylesheetWordBound
Space == {" ", "\n", "\r", "\t"}
reJSXAbbrStart(ch) == ch \in Letters \cup {".", "#", "[", "("}

reWordBound(prefix) ==
    /\ Len(prefix) \in {1, 2}
    /\ prefix[Len(prefix)] \in Letters \cup {".", "#", "!", "@", "[", "("}
    /\ Len(prefix) = 2 => prefix[1] \in Space \cup {">", ";", "\"", "'"}

\* variant: the boundary of the markup dialects
reStylesheetWordBound_asMarkup(prefix) == reWordBound(prefix)

reStylesheetWordBound(prefix) ==
    /\ Len(prefix) \in {1, 2}
    /\ prefix[Len(prefix)] \in Letters \cup {"!", "@"}
    /\ Len(prefix) = 2 => prefix[1] \in Space \cup {";", "\"", "'"}

\* ----------------------------------------------------------------- CssSpec
\* getCSSContext(code, pos), the stylesheet classifier.  The variables hold
\* its arguments, content the source and caret the offset, and last its
\* result once it has been called.
CssChars == {"a", ":", ";", "{", "}", " "}

\* the sources over CssChars of length n
RECURSIVE CssTexts(_)
CssTexts(n) ==
    IF n = 0 THEN {<<>>}
    ELSE {Append(t, ch) : t \in CssTexts(n - 1), ch \in CssChars}

\* `$foo: 1;` followed by a rule
ScssSample ==
    <<"$", "f", "o", "o", ":", " ", "1", ";", "\n", ".", "a", " ",
    "{", " ", "p", "a", "d", "d", "i", "n", "g", ":", " ", "0", ";",
    " ", "}">>

CssSources == UNION {CssTexts(n) : n \in 0..CssMaxLen} \cup {ScssSample}

\* the tokens scan() of the stylesheet matcher hands to its callback, in
\* the order of the calls, for the source c read from offset i on; start,
\* end: the run of text consumed since the last delimiter; pStart, pEnd: the
\* run before the last colon (-1: none).  Comments, quoted strings, round
\* brackets and pseudo-selectors are not in the alphabet.
pending(start, end, pStart, pEnd, at) ==
    IF pStart # -1
    THEN <<[type |-> "PropertyName", start |-> pStart, end |-> pEnd],
           IF start = -1
           THEN [type |-> "PropertyValue", start |-> at, end |-> at]
           ELSE [type |-> "PropertyValue", start |-> start, end |-> end]>>
    ELSE IF start # -1
    THEN <<[type |-> "PropertyName", start |-> start, end |-> end]>>
    ELSE <<>>

atEnd(start, end, pStart, pEnd) ==
    (IF pStart # -1
     THEN <<[type |-> "PropertyName", start |-> pStart, end |-> pEnd]>>
     ELSE <<>>)
    \o (IF start # -1
        THEN <<[type |-> IF pStart # -1 THEN "PropertyValue" ELSE "PropertyName",
                start |-> start, end |-> end]>>
        ELSE <<>>)

RECURSIVE scanCSS(_, _, _, _, _, _)
scanCSS(c, i, start, end, pStart, pEnd) ==
    IF i >= Len(c)
    THEN atEnd(start, end, pStart, pEnd)
    ELSE CASE c[i + 1] \in Space -> scanCSS(c, i + 1, start, end, pStart, pEnd)
           [] c[i + 1] = ";" ->
                pending(start, end, pStart, pEnd, i) \o scanCSS(c, i + 1, -1, -1, -1, -1)
           [] c[i + 1] = "}" ->
                pending(start, end, pStart, pEnd, i)
                \o <<[type |-> "BlockEnd", start |-> i, end |-> i + 1]>>
                \o scanCSS(c, i + 1, -1, -1, -1, -1)
           [] c[i + 1] = "{" ->
                <<[type |-> "Selector",
                   start |-> IF pStart # -1 THEN pStart
                             ELSE IF start = -1 THEN i + 1 ELSE start,
                   end |-> IF start = -1 /\ pStart = -1 THEN i + 1 ELSE end]>>
                \o scanCSS(c, i + 1, -1, -1, -1, -1)
           [] c[i + 1] = ":" ->
                scanCSS(c, i + 1, -1, -1, IF pStart = -1 THEN start ELSE pStart, end)
           [] OTHER ->
                scanCSS(c, i + 1, IF start = -1 THEN i ELSE start, i + 1, pStart, pEnd)

NoContext == [legal |-> FALSE, name |-> <<>>]

\* variant: a caret at the end of a token is not a hit
directHit_beforeEnd(token, pos) == token.start <= pos /\ token.end > pos

\* "Direct hit into token"
directHit(token, pos) == token.start <= pos /\ token.end >= pos

\* variant: a property name alone does not make a context
contextOf_sectionOnly(valid, name, section) ==
    IF valid /\ section # 0 THEN [legal |-> TRUE, name |-> name] ELSE NoContext

\* the value getCSSContext returns
contextOf(valid, name, section) ==
    IF valid /\ (name # <<>> \/ section # 0)
    THEN [legal |-> TRUE, name |-> name]
    ELSE NoContext

\* variant: a property value keeps the name of its property
nameAfter_keptByValue(token, name, c) ==
    IF token.type = "PropertyName" THEN slice(c, token.start, token.end) ELSE name

\* the name after the callback has passed a token
nameAfter(token, name, c) ==
    CASE token.type = "PropertyName" -> slice(c, token.start, token.end)
      [] token.type = "PropertyValue" -> <<>>
      [] OTHER -> name

sectionAfter(token, section) ==
    CASE token.type = "Selector" -> section + 1
      [] token.type = "BlockEnd" -> section - 1
      [] OTHER -> section

\* the callback of getCSSContext applied to the tokens from the k-th on
RECURSIVE callback(_, _, _, _, _, _)
callback(tokens, k, pos, section, name, c) ==
    IF k > Len(tokens) \/ tokens[k].start >= pos
    THEN contextOf(TRUE, name, section)
    ELSE IF directHit(tokens[k], pos)
    THEN contextOf(tokens[k].type = "PropertyValue", name, section)
    ELSE callback(tokens, k + 1, pos, sectionAfter(tokens[k], section),
                  nameAfter(tokens[k], name, c), c)

getCSSContext(c, pos) == callback(scanCSS(c, 0, -1, -1, -1, -1), 1, pos, 0, <<>>, c)

CssClassify ==
    /\ last.op = "init"
    /\ last' = [last EXCEPT !.op = "getCSSContext",
                            !.res = IF getCSSContext(content, caret).legal
                                    THEN "legal" ELSE "illegal",
                            !.ctx = getCSSContext(content, caret).name]
    /\ UNCHANGED <<content, caret, cache, lastPos, syntax, enabled>>

CssInit ==
    /\ content \in CssSources
    /\ caret \in 0..Len(content)
    /\ cache = NoCache
    /\ lastPos = Null
    /\ syntax = "scss"
    /\ enabled = TRUE
    /\ last = [op |-> "init", res |-> "none", delta |-> 0, ctx |-> "notcalled",
               started |-> FALSE, halted |-> FALSE, edits |-> 0,
               shown |-> <<>>, before |-> NullAbbr]

CssNext == CssClassify

CssSpec == CssInit /\ [][CssNext]_vars

\* ------------------------------------------------------ activation policy
\* isEnabled(editor): the list of ignored syntaxes is empty
isEnabled == enabled

allowTracking == isEnabled /\ (isSupported(syntax) \/ isJSX(syntax))

\* The tag scanner is external to the repository: an opening tag is `<`, a
\* letter and the text up to the first `>`.  The offset behind the tag that
\* starts at offset i, or -1 where no tag starts.
tagEnd(c, i) ==
    IF i + 2 <= Len(c) /\ c[i + 1] = "<" /\ c[i + 2] \in Letters
       /\ \E j \in (i + 3)..Len(c) : c[j] = ">"
    THEN CHOOSE j \in (i + 3)..Len(c) :
            c[j] = ">" /\ \A k \in (i + 3)..(j - 1) : c[k] # ">"
    ELSE -1

\* getHTMLContext(code, pos).current, scanning on from offset i: a tag that
\* starts before pos and ends behind it (no tag of the alphabet has a style
\* attribute)
RECURSIVE insideTag(_, _, _)
insideTag(c, i, pos) ==
    IF i >= Len(c) \/ i >= pos
    THEN FALSE
    ELSE LET end == tagEnd(c, i) IN
         IF end < 0 THEN insideTag(c, i + 1, pos)
         ELSE IF end <= pos THEN insideTag(c, end, pos)
         ELSE TRUE

\* CSSAbbreviationScope.Section
Section == <<"@@section">>

\* getCSSContext(code, pos) of the action utilities, for a stylesheet
\* document: current, the token the offset is in or at the end of (type
\* "none": no token), and the last of its ancestors, parent: the property
\* name for a value, the enclosing selector for any other token (name <<>>,
\* has FALSE: no ancestor).  k: the token looked at; section: the selectors
\* open before it, the innermost last
RECURSIVE CSSContext(_, _, _, _, _)
CSSContext(tokens, k, pos, section, c) ==
    IF k > Len(tokens)
    THEN [current |-> [type |-> "none", start |-> -1, end |-> -1], inline |-> FALSE, parent |-> [has |-> FALSE, name |-> <<>>]]
    ELSE IF tokens[k].start <= pos /\ pos <= tokens[k].end
    THEN [current |-> tokens[k], inline |-> FALSE,
          parent |-> IF tokens[k].type = "PropertyValue"
                     THEN [has |-> TRUE,
                           name |-> slice(c, tokens[k - 1].start, tokens[k - 1].end)]
                     ELSE IF section # <<>>
                     THEN [has |-> TRUE, name |-> section[Len(section)]]
                     ELSE [has |-> FALSE, name |-> <<>>]]
    ELSE CSSContext(tokens, k + 1, pos,
                    CASE tokens[k].type = "Selector" ->
                            Append(section, slice(c, tokens[k].start, tokens[k].end))
                      [] tokens[k].type = "BlockEnd" /\ section # <<>> ->
                            SubSeq(section, 1, Len(section) - 1)
                      [] OTHER -> section,
                    c)

\* getStylesheetAbbreviationContext(ctx).name
getStylesheetAbbreviationContext(ctx) ==
    IF ctx.inline THEN <<"@@property">>
    ELSE IF ctx.current.type = "PropertyValue" /\ ctx.parent.has
    THEN ctx.parent.name
    ELSE IF ctx.current.type \in {"Selector", "PropertyName"} /\ ~ctx.parent.has
    THEN Section
    ELSE <<"@@global">>

\* isTypingBeforeSelector(editor, pos, ctx): the typed character is the
\* only one of the first line of the selector
isTypingBeforeSelector(c, pos, current) ==
    /\ current.type = "Selector"
    /\ current.start = pos - 1
    /\ LET text == slice(c, current.start, current.end)
           line == SubSeq(text, 1, CHOOSE n \in 0..Len(text) :
                       /\ \A i \in 1..n : text[i] \notin {"\n", "\r"}
                       /\ n < Len(text) => text[n + 1] \in {"\n", "\r"})
       IN  \E i \in 1..Len(line) :
              {j \in 1..Len(line) : line[j] \notin Space} = {i}

\* getCSSActivationContext(editor, pos, syntax, ctx)
getCSSActivationContext(c, pos, ctx) ==
    IF ctx.current.type = "none"
    THEN NoOptions
    ELSE IF \/ ctx.current.type \in {"PropertyName", "PropertyValue"}
            \/ isTypingBeforeSelector(c, pos, ctx.current)
    THEN [type |-> "stylesheet", output |-> TRUE,
          scope |-> getStylesheetAbbreviationContext(ctx)]
    ELSE NoOptions

\* variant: every location is a legal activation context
getActivationContext_anywhere(c, pos) ==
    IF isHTML(syntax) THEN MarkupOptions ELSE BareOptions

\* getActivationContext(editor, pos): NoOptions stands for undefined (no
\* markup document of the model embeds a stylesheet)
getActivationContext(c, pos) ==
    IF isCSS(syntax)
    THEN getCSSActivationContext(c, pos,
            CSSContext(scanCSS(c, 0, -1, -1, -1, -1), 1, pos, <<>>, c))
    ELSE IF isHTML(syntax)
    THEN IF insideTag(c, 0, pos) THEN NoOptions ELSE MarkupOptions
    ELSE BareOptions

\* what startAbbreviationTracking has done; ctx: "skipped" (no abbreviation
\* start before the caret), "none" (the classifier found no context),
\* "refused" (no stylesheet word bound), "threw", "section" (tracker started
\* and removed as a false positive), or the context's type
nothing(w, ctx) == [w |-> w, ctx |-> ctx, started |-> FALSE]

\* in JSX, abbreviations are prefixed
isJSXStart(prefix) ==
    /\ isJSX(syntax)
    /\ Len(prefix) = 2
    /\ prefix[1] = JSX_PREFIX
    /\ reJSXAbbrStart(prefix[2])

\* start, as computed from the two characters before the caret
abbrStart(prefix, pos) ==
    IF isJSX(syntax)
    THEN IF isJSXStart(prefix) THEN pos - 2 ELSE -1
    ELSE IF reWordBound(prefix) THEN pos - 1 ELSE -1

\* variant: the range never takes in the paired character
abbrEnd_atCaret(c, lastCh, pos) == pos

\* end: behind the paired character, if the host has inserted one
abbrEnd(c, lastCh, pos) ==
    IF lastCh \in DOMAIN pairs /\ substr(c, <<pos, pos + 1>>) = <<pairs[lastCh]>>
    THEN pos + 1
    ELSE pos

\* variant: no tracker is taken for a false positive
isFalsePositive_never(tracker, options) == FALSE

\* the check for the section context: the preview of a valid abbreviation is
\* the abbreviation itself as a property name without a value
isFalsePositive(tracker, options) ==
    /\ tracker.abbreviation.type = "abbreviation"
    /\ options.type = "stylesheet"
    /\ options.scope = Section
    /\ Len(tracker.abbreviation.preview) >= Len(tracker.abbreviation.abbr)
    /\ SubSeq(tracker.abbreviation.preview, 1, Len(tracker.abbreviation.abbr))
          = tracker.abbreviation.abbr
    /\ LET s == sliceFrom(tracker.abbreviation.preview, Len(tracker.abbreviation.abbr))
       IN  \* /^:\s*;?$/
           /\ Len(s) >= 1
           /\ s[1] = ":"
           /\ \A i \in 2..Len(s) : s[i] \in Space \/ (i = Len(s) /\ s[i] = ";")

\* the part of startAbbreviationTracking that follows getActivationContext
startInContext(w, start, end, offset, prefix, options) ==
    IF options = NoOptions
    THEN nothing(w, "none")
    ELSE IF options.type = "stylesheet" /\ ~reStylesheetWordBound(prefix)
    THEN nothing(w, "refused")
    ELSE IF startTracking(w, start, end, FALSE, offset, options).threw
    THEN nothing(w, "threw")
    ELSE IF isFalsePositive(getTracker(startTracking(w, start, end, FALSE, offset, options).w.cache),
                            options)
    THEN [w |-> stopTracking(startTracking(w, start, end, FALSE, offset, options).w,
                             FALSE, TRUE).w,
          ctx |-> "section", started |-> FALSE]
    ELSE [w |-> startTracking(w, start, end, FALSE, offset, options).w,
          ctx |-> options.type, started |-> TRUE]

\* the part of startAbbreviationTracking that follows the computation of
\* start; substr throws at the end of the document
startAtPrefix(w, pos, prefix, start) ==
    IF start < 0
    THEN nothing(w, "skipped")
    ELSE IF prefix[Len(prefix)] \in DOMAIN pairs /\ ~inBounds(w.content, <<pos, pos + 1>>)
    THEN nothing(w, "threw")
    ELSE startInContext(w, start, abbrEnd(w.content, prefix[Len(prefix)], pos),
                        IF isJSXStart(prefix) THEN 1 ELSE 0, prefix,
                        getActivationContext(w.content, pos))

\* startAbbreviationTracking(editor, pos)
startAbbreviationTracking(w, pos) ==
    startAtPrefix(w, pos, substr(w.content, <<Max(0, pos - 2), pos>>),
                  abbrStart(substr(w.content, <<Max(0, pos - 2), pos>>), pos))

\* the offset before the closing pair characters that end the range
RECURSIVE beforePairsEnd(_, _, _)
beforePairsEnd(abbr, start, targetPos) ==
    IF /\ targetPos > start
       /\ targetPos - start \in 1..Len(abbr)
       /\ abbr[targetPos - start] \in pairsEnd
    THEN beforePairsEnd(abbr, start, targetPos - 1)
    ELSE targetPos

\* variant: a forced tracker is judged like any other
shouldStopTracking_forcedToo(tracker, pos) ==
    IF tracker.abbreviation.type = "null" THEN TRUE
    ELSE IF tracker.abbreviation.type = "error"
    THEN tracker.range[2] = pos \/ tracker.abbreviation.pos = 0
    ELSE FALSE

\* variant: line breaks and tab stops in the text are not looked for
shouldStopTracking_anyText(tracker, pos) ==
    IF tracker.forced THEN FALSE
    ELSE IF tracker.abbreviation.type = "null" THEN TRUE
    ELSE IF tracker.abbreviation.type = "error"
    THEN \/ tracker.range[2] = pos
         \/ tracker.abbreviation.pos = 0
         \/ beforePairsEnd(tracker.abbreviation.abbr, tracker.range[1], tracker.range[2]) = pos
    ELSE FALSE

\* variant: the caret at the end of the range does not decide
shouldStopTracking_noEdge(tracker, pos) ==
    IF tracker.forced THEN FALSE
    ELSE IF tracker.abbreviation.type = "null" THEN TRUE
    ELSE IF \E i \in 1..Len(tracker.abbreviation.abbr) :
                tracker.abbreviation.abbr[i] \in {"\r", "\n", tabStop}
    THEN TRUE
    ELSE IF tracker.abbreviation.type = "error"
    THEN \/ tracker.abbreviation.pos = 0
         \/ beforePairsEnd(tracker.abbreviation.abbr, tracker.range[1], tracker.range[2]) = pos
    ELSE FALSE

\* variant: an error at the start of the text does not decide
shouldStopTracking_noZero(tracker, pos) ==
    IF tracker.forced THEN FALSE
    ELSE IF tracker.abbreviation.type = "null" THEN TRUE
    ELSE IF \E i \in 1..Len(tracker.abbreviation.abbr) :
                tracker.abbreviation.abbr[i] \in {"\r", "\n", tabStop}
    THEN TRUE
    ELSE IF tracker.abbreviation.type = "error"
    THEN \/ tracker.range[2] = pos
         \/ /\ tracker.options.type = "stylesheet"
            /\ tracker.abbreviation.pos + 1 \in 1..Len(tracker.abbreviation.abbr)
            /\ tracker.abbreviation.abbr[tracker.abbreviation.pos + 1] \in Space \cup {";", ","}
         \/ beforePairsEnd(tracker.abbreviation.abbr, tracker.range[1], tracker.range[2]) = pos
    ELSE FALSE

\* variant: a stylesheet is treated like markup
shouldStopTracking_noErrChar(tracker, pos) ==
    IF tracker.forced THEN FALSE
    ELSE IF tracker.abbreviation.type = "null" THEN TRUE
    ELSE IF \E i \in 1..Len(tracker.abbreviation.abbr) :
                tracker.abbreviation.abbr[i] \in {"\r", "\n", tabStop}
    THEN TRUE
    ELSE IF tracker.abbreviation.type = "error"
    THEN \/ tracker.range[2] = pos
         \/ tracker.abbreviation.pos = 0
         \/ beforePairsEnd(tracker.abbreviation.abbr, tracker.range[1], tracker.range[2]) = pos
    ELSE FALSE

shouldStopTracking(tracker, pos) ==
    IF tracker.forced THEN FALSE
    ELSE IF tracker.abbreviation.type = "null" THEN TRUE
    ELSE LET abbr == tracker.abbreviation.abbr IN
         IF \E i \in 1..Len(abbr) : abbr[i] \in {"\r", "\n", tabStop}
         THEN TRUE
         ELSE IF tracker.abbreviation.type = "error"
         THEN LET errPos == tracker.abbreviation.pos IN
              IF tracker.range[2] = pos THEN TRUE
              ELSE IF errPos = 0 THEN TRUE
              ELSE IF /\ tracker.options.type = "stylesheet"
                      /\ errPos + 1 \in 1..Len(abbr)
                      /\ abbr[errPos + 1] \in Space \cup {";", ","}
              THEN TRUE
              ELSE beforePairsEnd(abbr, tracker.range[1], tracker.range[2]) = pos
         ELSE FALSE

\* variant: any move of the caret to the right counts as a typed character
isSingleStep_anyAdvance(lastPos_, pos) == lastPos_ <= pos

\* lastPos === pos - 1
isSingleStep(lastPos_, pos) == lastPos_ = pos - 1

\* The change callback of initAbbreviationTracker gives the world after it,
\* the caret it records (lastPos_, the caret recorded before, where an
\* exception has ended it) and what it did.
\* its end, s being what startAbbreviationTracking has done, if called
stopOrKeep(s, res, lastPos_, pos) ==
    IF s.ctx = "threw"
    THEN [w |-> s.w, lastPos |-> lastPos_, res |-> res,
          ctx |-> s.ctx, started |-> FALSE]
    ELSE [w |-> IF /\ hasTracker(s.w.cache)
                   /\ shouldStopTracking(getTracker(s.w.cache), pos)
                THEN stopTracking(s.w, FALSE, TRUE).w
                ELSE s.w,
          lastPos |-> pos, res |-> res, ctx |-> s.ctx, started |-> s.started]

\* variant: no start in the callback whose handleChange has found a tracker
startOrKeep_notAfterDestroy(r, lastPos_, pos) ==
    IF r.res = "threw"
    THEN [w |-> r.w, lastPos |-> lastPos_, res |-> r.res,
          ctx |-> "notcalled", started |-> FALSE]
    ELSE IF /\ r.res = "none"
            /\ ~hasTracker(r.w.cache)
            /\ lastPos_ # Null
            /\ isSingleStep(lastPos_, pos)
            /\ allowTracking
    THEN stopOrKeep(startAbbreviationTracking(r.w, pos), r.res, lastPos_, pos)
    ELSE stopOrKeep(nothing(r.w, "notcalled"), r.res, lastPos_, pos)

\* its part after handleChange, r being what handleChange has done
startOrKeep(r, lastPos_, pos) ==
    IF r.res = "threw"
    THEN [w |-> r.w, lastPos |-> lastPos_, res |-> r.res,
          ctx |-> "notcalled", started |-> FALSE]
    ELSE IF /\ ~hasTracker(r.w.cache)
            /\ lastPos_ # Null
            /\ isSingleStep(lastPos_, pos)
            /\ allowTracking
    THEN stopOrKeep(startAbbreviationTracking(r.w, pos), r.res, lastPos_, pos)
    ELSE stopOrKeep(nothing(r.w, "notcalled"), r.res, lastPos_, pos)

onDidChange(w, lastPos_) == startOrKeep(handleChange(w), lastPos_, getCaret(w))

\* the selection callback of initAbbreviationTracker: the caret it records
onDidChangeSelection(w, lastPos_) ==
    IF isEnabled THEN getCaret(w) ELSE lastPos_

\* the host has made edit e: it calls the change callback and then the
\* selection callback
PolicyBecome(e, r) ==
    /\ last.edits < MaxEdits
    /\ Become(r.w)
    /\ lastPos' = onDidChangeSelection(r.w, r.lastPos)
    /\ last' = [History(e.op, r.res, e.c, r.ctx, r.started)
                    EXCEPT !.edits = last.edits + 1]
    /\ UNCHANGED <<syntax, enabled>>

PolicyDeliver(e) ==
    PolicyBecome(e, onDidChange([content |-> e.c, caret |-> e.pos, cache |-> cache], lastPos))

PolicyInput(n, text) ==
    canInput(n, Len(text), PolicyMaxLen) /\ PolicyDeliver(inputEdit(n, text))

PolicyBackspace(n) == canBackspace(n) /\ PolicyDeliver(backspaceEdit(n))

PolicyDel(n) == canDel(n) /\ PolicyDeliver(delEdit(n))

\* the user moves the caret: the host calls the selection callback
PolicySelect(pos) ==
    /\ caret' = pos
    /\ lastPos' = onDidChangeSelection([World EXCEPT !.caret = pos], lastPos)
    /\ last' = History("select", "none", content, "notcalled", FALSE)
    /\ UNCHANGED <<content, cache, syntax, enabled>>

\* the user runs emmet.clear-marker
PolicyStopTracking ==
    /\ Running
    /\ hasTracker(cache)
    /\ Become(stopTracking(World, FALSE, FALSE).w)
    /\ last' = History("stop", "none", content, "notcalled", FALSE)
    /\ UNCHANGED <<lastPos, syntax, enabled>>

PolicyInit ==
    /\ content = <<"<", "d", ">">>
    /\ caret = 3
    /\ cache = NoCache
    /\ lastPos = Null
    /\ syntax \in Syntaxes
    /\ enabled \in BOOLEAN
    /\ last = [op |-> "init", res |-> "none", delta |-> 0, ctx |-> "notcalled",
               started |-> FALSE, halted |-> FALSE, edits |-> 0,
               shown |-> <<>>, before |-> NullAbbr]

PolicyNext ==
    \/ \E n \in 0..MaxSel, text \in PolicyTexts : PolicyInput(n, text)
    \/ \E n \in 0..MaxSel : PolicyBackspace(n)
    \/ \E n \in 0..MaxSel : PolicyDel(n)
    \/ \E pos \in 0..Len(content) : PolicySelect(pos)
    \/ PolicyStopTracking

PolicySpec == PolicyInit /\ [][PolicyNext]_vars

\* -------------------------------------------------------------- StartSpec
\* The change callback of initAbbreviationTracker where it starts a tracker:
\* one character typed at the caret of a document without a tracker, in a
\* markup, a prefixed or a stylesheet dialect.
RECURSIVE StartDocs(_)
StartDocs(n) ==
    IF n = 0 THEN {<<>>}
    ELSE {Append(t, ch) : t \in StartDocs(n - 1),
                          ch \in {"d", "x", "<", ">", "[", "]", ";", ":", "{", " "}}

\* the user types ch
StartInput(ch) ==
    /\ last.op = "init"
    /\ PolicyDeliver(inputEdit(0, <<ch>>))

\* the user types `[`, the host inserts the closing bracket
StartPaired ==
    /\ last.op = "init"
    /\ PolicyDeliver(pairedEdit(0))

StartInit ==
    /\ content \in UNION {StartDocs(n) : n \in 0..StartMaxLen}
    /\ caret \in 0..Len(content)
    /\ cache = NoCache
    /\ lastPos = caret
    /\ syntax \in {"html", "jsx", "css"}
    /\ enabled = TRUE
    /\ last = [op |-> "init", res |-> "none", delta |-> 0, ctx |-> "notcalled",
               started |-> FALSE, halted |-> FALSE, edits |-> 0,
               shown |-> <<>>, before |-> NullAbbr]

StartNext ==
    \/ \E ch \in {"d", "x", "[", "(", "{", "!"} : StartInput(ch)
    \/ StartPaired

StartSpec == StartInit /\ [][StartNext]_vars

\* --------------------------------------------------------------- StopSpec
\* The change callback of initAbbreviationTracker where the document has a
\* tracker: a tracker with a valid abbreviation, as startTracking has made it
\* and typing has extended it, in a markup, a prefixed or a stylesheet
\* dialect, the caret in its range, and one edit.
RECURSIVE StopDocs(_)
StopDocs(n) ==
    IF n = 0 THEN {<<>>}
    ELSE {Append(t, ch) : t \in StopDocs(n - 1), ch \in {"d", " ", "[", "]", "<"}}

StopInit ==
    /\ syntax \in {"html", "jsx", "css"}
    /\ content \in UNION {StopDocs(n) : n \in 1..StopMaxLen}
    /\ caret \in 0..Len(content)
    /\ lastPos = caret
    /\ enabled = TRUE
    /\ \E start \in 0..Len(content), end \in 0..Len(content), forced \in BOOLEAN :
          /\ start < end
          /\ start <= caret
          /\ caret <= end
          /\ IF isJSX(syntax)
             THEN end - start >= 2 /\ content[start + 1] = JSX_PREFIX
             ELSE IF start = 0 THEN TRUE ELSE content[start] \in Space
          /\ cache = startTracking([content |-> content, caret |-> caret, cache |-> NoCache],
                                   start, end, forced,
                                   IF isJSX(syntax) THEN 1 ELSE 0,
                                   IF isCSS(syntax)
                                   THEN [type |-> "stylesheet", output |-> TRUE,
                                         scope |-> <<"@@global">>]
                                   ELSE MarkupOptions).w.cache
          /\ hasTracker(cache)
          /\ getTracker(cache).abbreviation.type = "abbreviation"
    /\ last = [op |-> "init", res |-> "none", delta |-> 0, ctx |-> "notcalled",
               started |-> FALSE, halted |-> FALSE, edits |-> 0,
               shown |-> <<>>, before |-> NullAbbr]

\* the user types or pastes a character, or removes one
StopNext ==
    \/ \E text \in {<<"d">>, <<" ">>, <<"[">>, <<"]">>, <<"\n">>, <<"\r">>, <<tabStop>>} :
          /\ last.op = "init"
          /\ PolicyDeliver(inputEdit(0, text))
    \/ /\ last.op = "init"
       /\ canBackspace(0)
       /\ PolicyDeliver(backspaceEdit(0))
    \/ /\ last.op = "init"
       /\ canDel(0)
       /\ PolicyDeliver(delEdit(0))

StopSpec == StopInit /\ [][StopNext]_vars

\* ------------------------------------------------------------- SharedSpec
\* Two editors on one document: getId is the uri of the document, so both
\* find the same tracker. The host calls the change callback of the editor
\* that made the edit e and then that of the other editor, whose caret is
\* caret2 and whose callback has recorded lastPos2; r1 and r2 are what the
\* two callbacks do. last.before is the tracker the second callback finds,
\* last.delta the delta it computes, last.res what its handleChange does.
SharedBecome(e, r1, r2) ==
    /\ content' = e.c
    /\ caret' = e.pos
    /\ cache' = r2.w.cache
    /\ lastPos' = onDidChangeSelection(r1.w, r1.lastPos)
    /\ last' = [History(e.op, r2.res, e.c, r2.ctx, r2.started)
                    EXCEPT !.delta = IF hasTracker(r1.w.cache)
                                     THEN Len(e.c) - getTracker(r1.w.cache).lastLength
                                     ELSE 0,
                           !.before = IF hasTracker(r1.w.cache)
                                      THEN getTracker(r1.w.cache) ELSE NullAbbr,
                           !.edits = last.edits + 1]
    /\ UNCHANGED <<syntax, enabled>>

SharedSecond(e, r1, caret2, lastPos2) ==
    SharedBecome(e, r1, onDidChange([r1.w EXCEPT !.caret = caret2], lastPos2))

SharedDeliver(e) ==
    /\ last.op = "init"
    /\ \E caret2 \in 0..Len(e.c), lastPos2 \in {Null} \cup 0..Len(content) :
          SharedSecond(e, onDidChange([content |-> e.c, caret |-> e.pos,
                                       cache |-> cache], lastPos),
                       caret2, lastPos2)

SharedNext ==
    \/ \E text \in {<<"d">>, <<" ">>, <<"[">>} : SharedDeliver(inputEdit(0, text))
    \/ canBackspace(0) /\ SharedDeliver(backspaceEdit(0))
    \/ canDel(0) /\ SharedDeliver(delEdit(0))

SharedSpec == StopInit /\ [][SharedNext]_vars

\* ------------------------------------------------------------- ForcedSpec
\* PolicySpec with a client that starts forced trackers at the caret:
\* startTracking(editor, start, pos, {forced: true})
PolicyStartForced(start) ==
    /\ Running
    /\ ~hasTracker(cache)
    /\ Become(startTracking(World, start, caret, TRUE, 0, NoOptions).w)
    /\ last' = History("start", "none", content, "notcalled", FALSE)
    /\ UNCHANGED <<lastPos, syntax, enabled>>

\* ------------------------------------------------------ completion provider
canDisplayCompletion(tracker) == tracker.abbreviation.type = "abbreviation"

\* extract(content, pos, type, {prefix}) of the Emmet library, over the
\* alphabet of the model: the offset where the run of characters other than
\* white space and tag delimiters that ends at pos starts (pos itself where
\* there is no such character before pos)
RECURSIVE extract(_, _)
extract(c, pos) ==
    IF pos > 0 /\ c[pos] \notin Space \cup {"<", ">"} THEN extract(c, pos - 1) ELSE pos

\* extractTracker(editor, ctx): [w, threw]
extractTracker(w, position) ==
    LET options == getActivationContext(w.content, position)
        start   == extract(w.content, position)
    IN  IF start < position
        THEN startTracking(w, start, position, FALSE, 0, options)
        ELSE [w |-> w, threw |-> FALSE]

\* createExpandAbbreviationCompletion(editor, tracker); documentation: what
\* the item has for the value FALSE and for the value TRUE of the
\* configuration key emmet.preview-completion (<<>>: none)
createExpandAbbreviationCompletion(tracker) ==
    [label |-> tracker.abbreviation.abbr,
     range |-> tracker.range,
     insertText |-> expand(tracker.abbreviation.abbr),
     documentation |-> [preview \in BOOLEAN |->
                          IF preview THEN tracker.abbreviation.preview ELSE <<>>]]

\* variant: the position is not compared with the tracked range
provideCompletionItems_anyPosition(w, position, invoke) ==
    IF isEnabled /\ hasTracker(w.cache) /\ canDisplayCompletion(getTracker(w.cache))
    THEN [w |-> w, threw |-> FALSE,
          items |-> <<createExpandAbbreviationCompletion(getTracker(w.cache))>>]
    ELSE [w |-> w, threw |-> FALSE, items |-> <<>>]

\* provideCompletionItems(editor, ctx), ctx.position = position and
\* ctx.reason = Invoke iff invoke: the editor after the call, whether the
\* call was left by an exception, and the Emmet expansion items returned
provideCompletionItems(w, position, invoke) ==
    IF ~isEnabled
    THEN [w |-> w, threw |-> FALSE, items |-> <<>>]
    ELSE LET r == IF ~hasTracker(w.cache) /\ invoke /\ (isSupported(syntax) \/ isJSX(syntax))
                  THEN extractTracker(w, position)
                  ELSE [w |-> w, threw |-> FALSE]
         IN  IF r.threw
             THEN [w |-> r.w, threw |-> TRUE, items |-> <<>>]
             ELSE IF /\ hasTracker(r.w.cache)
                     /\ canDisplayCompletion(getTracker(r.w.cache))
                     /\ contains(getTracker(r.w.cache), position)
                  THEN [w |-> r.w, threw |-> FALSE,
                        items |-> <<createExpandAbbreviationCompletion(getTracker(r.w.cache))>>]
                  ELSE [w |-> r.w, threw |-> FALSE, items |-> <<>>]

\* the host replaces the item's range by its text, caret behind the text
acceptEdit(item) ==
    [op |-> "accept",
     c |-> editInsert(editDelete(content, item.range[1], item.range[2]),
                      item.range[1], item.insertText),
     pos |-> item.range[1] + Len(item.insertText)]

\* the host asks the provider for completions at the caret
PolicyComplete(invoke) ==
    /\ Running
    /\ Become(provideCompletionItems(World, caret, invoke).w)
    /\ last' = History("complete",
                       IF provideCompletionItems(World, caret, invoke).items # <<>>
                       THEN "item" ELSE "noitem",
                       content, "notcalled", FALSE)
    /\ UNCHANGED <<lastPos, syntax, enabled>>

\* the user accepts the Emmet item that the provider returns at the caret
acceptable(item) ==
    Len(content) - (item.range[2] - item.range[1]) + Len(item.insertText) <= ForcedMaxLen

PolicyAccept ==
    /\ Running
    /\ provideCompletionItems(World, caret, FALSE).items # <<>>
    /\ acceptable(provideCompletionItems(World, caret, FALSE).items[1])
    /\ PolicyDeliver(acceptEdit(provideCompletionItems(World, caret, FALSE).items[1]))

\* -------------------------------------------------------------- ForcedSpec
ForcedInput(n, text) ==
    canInput(n, Len(text), ForcedMaxLen) /\ PolicyDeliver(inputEdit(n, text))

ForcedInit ==
    /\ content = <<"d">>
    /\ caret = 1
    /\ cache = NoCache
    /\ lastPos = Null
    /\ syntax = "html"
    /\ enabled = TRUE
    /\ last = [op |-> "init", res |-> "none", delta |-> 0, ctx |-> "notcalled",
               started |-> FALSE, halted |-> FALSE, edits |-> 0,
               shown |-> <<>>, before |-> NullAbbr]

ForcedNext ==
    \/ \E text \in PolicyTexts : ForcedInput(0, text)
    \/ PolicyBackspace(0)
    \/ PolicyDel(0)
    \/ \E pos \in 0..Len(content) : PolicySelect(pos)
    \/ PolicyStopTracking
    \/ \E start \in 0..caret : PolicyStartForced(start)
    \/ \E invoke \in BOOLEAN : PolicyComplete(invoke)
    \/ PolicyAccept

ForcedSpec == ForcedInit /\ [][ForcedNext]_vars

\* ------------------------------------------------------------- CommandSpec
\* the abbreviations the user enters in the input panel of the wrap command
ValuesEntered == {<<"d">>, <<"]">>, <<"d", "[">>}

\* the message of the wrap command for an error at offset pos: `err.pos` is
\* tested for truth, Null stands for a message without an offset
wrapMessage(pos) ==
    [text |-> "Abbreviation is invalid, unable to wrap",
     pos |-> IF pos # 0 THEN pos ELSE Null]

\* the abbreviation emmet.expand-abbreviation extracts before the caret
extracted == substr(content, <<extract(content, caret), caret>>)

\* emmet.expand-abbreviation: no abbreviation before the caret ("noabbr"),
\* expand() throws and nothing catches it ("uncaught"), or the abbreviation
\* is replaced by its expansion and the host runs the change callback
ExpandAbbreviation ==
    /\ Running
    /\ IF extracted = <<>>
       THEN /\ last' = History("expand", "noabbr", content, "notcalled", FALSE)
            /\ UNCHANGED <<content, caret, cache, lastPos, syntax, enabled>>
       ELSE IF parseAbbreviation(extracted).type = "error"
       THEN /\ last' = History("expand", "uncaught", content, "notcalled", FALSE)
            /\ UNCHANGED <<content, caret, cache, lastPos, syntax, enabled>>
       ELSE /\ Len(content) - Len(extracted) + Len(expand(extracted)) <= MaxLen
            /\ Deliver([op |-> "expand",
                        c |-> editInsert(editDelete(content, extract(content, caret), caret),
                                         extract(content, caret), expand(extracted)),
                        pos |-> extract(content, caret) + Len(expand(extracted))])

\* emmet.wrap-with-abbreviation with nothing selected and no tag around the
\* caret, the user enters value: expand() throws and the message is shown
\* ("caught"), or the expansion is inserted at the caret
WrapWithAbbreviation(value) ==
    /\ Running
    /\ IF parseAbbreviation(value).type = "error"
       THEN /\ last' = [History("wrap", "caught", content, "notcalled", FALSE)
                            EXCEPT !.shown = <<wrapMessage(parseAbbreviation(value).pos)>>]
            /\ UNCHANGED <<content, caret, cache, lastPos, syntax, enabled>>
       ELSE /\ Len(content) + Len(expand(value)) <= MaxLen
            /\ Deliver([op |-> "wrap",
                        c |-> editInsert(content, caret, expand(value)),
                        pos |-> caret + Len(expand(value))])

CommandNext ==
    \/ \E text \in Texts : input(0, text)
    \/ inputPaired(0)
    \/ backspace(0)
    \/ \E pos \in 0..Len(content) : select(pos)
    \/ ExpandAbbreviation
    \/ \E value \in ValuesEntered : WrapWithAbbreviation(value)

CommandSpec == Init /\ [][CommandNext]_vars

\* ------------------------------------------------------------ RegistrySpec
\* A workspace of several documents, each shown by one editor on which
\* initAbbreviationTracker is registered.  Here the variables are indexed by
\* the document's uri: content, caret and lastPos (the closure variable of
\* the document's editor) are functions on the open documents, cache is the
\* registry, a function on the documents that have a tracker.
Uris == {"a", "b"}

\* getId(editor): editor.document.uri
getId(u) == u

\* the editor of document u, with text c and the caret at pos, as the
\* callbacks see it: the registry holds its tracker under getId(editor)
Editor(u, c, pos) ==
    [content |-> c, caret |-> pos,
     cache |-> IF getId(u) \in DOMAIN cache THEN setTracker(cache[getId(u)]) ELSE NoCache]

\* the registry after a call has left the editor of document u as w
Registry(u, w) ==
    [x \in (DOMAIN cache \ {getId(u)}) \cup (IF hasTracker(w.cache) THEN {getId(u)} ELSE {})
        |-> IF x = getId(u) THEN getTracker(w.cache) ELSE cache[x]]

With(f, u, v) == [x \in DOMAIN f \cup {u} |-> IF x = u THEN v ELSE f[x]]
Without(f, u) == [x \in DOMAIN f \ {u} |-> f[x]]

Event(op, res) == [last EXCEPT !.op = op, !.res = res]

\* the user opens document u: initAbbreviationTracker(editor)
OpenEditor(u) ==
    /\ u \notin DOMAIN content
    /\ content' = With(content, u, <<>>)
    /\ caret' = With(caret, u, 0)
    /\ lastPos' = With(lastPos, u, Null)
    /\ last' = Event("open", "none")
    /\ UNCHANGED <<cache, syntax, enabled>>

\* the host has changed document u to c with the caret at pos: the change
\* callback r, then the selection callback
RegistryBecome(u, op, r) ==
    /\ content' = With(content, u, r.w.content)
    /\ caret' = With(caret, u, r.w.caret)
    /\ cache' = Registry(u, r.w)
    /\ lastPos' = With(lastPos, u, onDidChangeSelection(r.w, r.lastPos))
    /\ last' = Event(op, "none")
    /\ UNCHANGED <<syntax, enabled>>

RegistryInput(u, text) ==
    /\ u \in DOMAIN content
    /\ Len(content[u]) + Len(text) <= RegistryMaxLen
    /\ RegistryBecome(u, "input",
            onDidChange(Editor(u, editInsert(content[u], caret[u], text),
                               caret[u] + Len(text)), lastPos[u]))

RegistryBackspace(u) ==
    /\ u \in DOMAIN content
    /\ caret[u] > 0
    /\ RegistryBecome(u, "backspace",
            onDidChange(Editor(u, editDelete(content[u], caret[u] - 1, caret[u]),
                               caret[u] - 1), lastPos[u]))

RegistrySelect(u, pos) ==
    /\ u \in DOMAIN content
    /\ caret' = With(caret, u, pos)
    /\ lastPos' = With(lastPos, u, onDidChangeSelection(Editor(u, content[u], pos), lastPos[u]))
    /\ last' = Event("select", "none")
    /\ UNCHANGED <<content, cache, syntax, enabled>>

\* a client starts a forced tracker at the caret of document u
RegistryStartForced(u) ==
    /\ u \in DOMAIN content
    /\ getId(u) \notin DOMAIN cache
    /\ cache' = Registry(u, startTracking(Editor(u, content[u], caret[u]),
                                          caret[u], caret[u], TRUE, 0, NoOptions).w)
    /\ last' = Event("start", "none")
    /\ UNCHANGED <<content, caret, lastPos, syntax, enabled>>

\* the user closes document u: the host runs the destroy callback,
\* stopTracking(editor), and the document leaves the workspace
CloseEditor(u) ==
    /\ u \in DOMAIN content
    /\ cache' = Registry(u, stopTracking(Editor(u, content[u], caret[u]), FALSE, FALSE).w)
    /\ content' = Without(content, u)
    /\ caret' = Without(caret, u)
    /\ lastPos' = Without(lastPos, u)
    /\ last' = Event("close", IF getId(u) \in DOMAIN cache THEN "removed" ELSE "none")
    /\ UNCHANGED <<syntax, enabled>>

RegistryInit ==
    /\ content = NoCache
    /\ caret = NoCache
    /\ lastPos = NoCache
    /\ cache = NoCache
    /\ syntax = "html"
    /\ enabled = TRUE
    /\ last = [op |-> "init", res |-> "none", delta |-> 0, ctx |-> "notcalled",
               started |-> FALSE, halted |-> FALSE, edits |-> 0,
               shown |-> <<>>, before |-> NullAbbr]

RegistryNext ==
    \/ \E u \in Uris : OpenEditor(u)
    \/ \E u \in Uris : RegistryInput(u, <<"d">>)
    \/ \E u \in Uris : RegistryBackspace(u)
    \/ \E u \in Uris, pos \in 0..RegistryMaxLen :
          u \in DOMAIN content /\ pos <= Len(content[u]) /\ RegistrySelect(u, pos)
    \/ \E u \in Uris : RegistryStartForced(u)
    \/ \E u \in Uris : CloseEditor(u)

RegistrySpec == RegistryInit /\ [][RegistryNext]_vars

\* --------------------------------------------------------------- HtmlSpec
\* The markup classifier getHTMLContext as a function of source, offset and
\* dialect.

\* the pieces the generated documents are made of
HtmlFragments == {
    \* `<d>`
    <<"<", "d", ">">>,
    \* `</d>`
    <<"<", "/", "d", ">">>,
    \* `<d style="a:p">`
    <<"<", "d", " ", "s", "t", "y", "l", "e", "=", "\"", "a", ":", "p", "\"", ">">>,
    \* `<br style=p>`
    <<"<", "b", "r", " ", "s", "t", "y", "l", "e", "=", "p", ">">>,
    \* `<d style>`
    <<"<", "d", " ", "s", "t", "y", "l", "e", ">">>,
    \* `<d style="">`
    <<"<", "d", " ", "s", "t", "y", "l", "e", "=", "\"", "\"", ">">>,
    \* `<d id="p"/>`
    <<"<", "d", " ", "i", "d", "=", "\"", "p", "\"", "/", ">">>,
    \* `a{`
    <<"a", "{">>,
    \* `<style>`
    <<"<", "s", "t", "y", "l", "e", ">">>,
    \* `</style>`
    <<"<", "/", "s", "t", "y", "l", "e", ">">>}

\* the documents of up to n pieces
RECURSIVE HtmlDocs(_)
HtmlDocs(n) ==
    IF n = 0 THEN {<<>>}
    ELSE HtmlDocs(n - 1) \cup {d \o f : d \in HtmlDocs(n - 1), f \in HtmlFragments}

\* documents with a closed `style` element and with an element closed inside
\* another one
HtmlSamples == {
    \* `<style>a{</style>`
    <<"<", "s", "t", "y", "l", "e", ">", "a", "{", "<", "/", "s", "t", "y", "l", "e", ">">>,
    \* `<style type="scss">a{</style>`
    <<"<", "s", "t", "y", "l", "e", " ", "t", "y", "p", "e", "=", "\"", "s", "c", "s", "s", "\"", ">", "a", "{", "<", "/", "s", "t", "y", "l", "e", ">">>,
    \* `<style type=scss>a{</style>`
    <<"<", "s", "t", "y", "l", "e", " ", "t", "y", "p", "e", "=", "s", "c", "s", "s", ">", "a", "{", "<", "/", "s", "t", "y", "l", "e", ">">>,
    \* `<d id="p"><d></d>a{`
    <<"<", "d", " ", "i", "d", "=", "\"", "p", "\"", ">", "<", "d", ">", "<", "/", "d", ">", "a", "{">>}

isQuote(ch) == ch \in {"\"", "'"}

\* the offset behind the run of characters from offset j that are not in stop
RECURSIVE runEnd(_, _, _)
runEnd(s, j, stop) ==
    IF j < Len(s) /\ s[j + 1] \notin stop THEN runEnd(s, j + 1, stop) ELSE j

\* the characters that end a tag name or an attribute name
NameStop == Space \cup {"<", ">", "/", "=", "\"", "'"}

\* The markup scanner is external to the repository.  The offset behind the
\* `>` that closes the tag whose attributes start at offset j, -1 if the tag
\* is not closed; q is the quote of the attribute value the scan is in.
RECURSIVE tagClose(_, _, _)
tagClose(c, j, q) ==
    IF j >= Len(c) THEN -1
    ELSE LET ch == c[j + 1] IN
         IF q # "" THEN tagClose(c, j + 1, IF ch = q THEN "" ELSE q)
         ELSE IF isQuote(ch) THEN tagClose(c, j + 1, ch)
         ELSE IF ch = ">" THEN j + 1
         ELSE tagClose(c, j + 1, "")

\* the tags scan(code, callback, options) reports from offset i on: open and
\* self-closing tags `<name ...>` and `<name .../>`, closing tags `</name>`;
\* the content of a special element (`style`) is skipped up to its closing
\* tag
RECURSIVE scan(_, _)
scan(c, i) ==
    IF i >= Len(c) THEN <<>>
    ELSE IF c[i + 1] # "<" THEN scan(c, i + 1)
    ELSE IF i + 2 <= Len(c) /\ c[i + 2] = "/"
    THEN LET n == runEnd(c, i + 2, NameStop) IN
         IF n > i + 2 /\ n < Len(c) /\ c[n + 1] = ">"
         THEN <<[name |-> slice(c, i + 2, n), type |-> "Close",
                 start |-> i, end |-> n + 1]>> \o scan(c, n + 1)
         ELSE scan(c, i + 1)
    ELSE LET n == runEnd(c, i + 1, NameStop)
             e == tagClose(c, n, "")
         IN  IF n = i + 1 \/ e < 0 THEN scan(c, i + 1)
             ELSE LET name == slice(c, i + 1, n)
                      selfClose == c[e - 1] = "/"
                      tag == [name |-> name,
                              type |-> IF selfClose THEN "SelfClose" ELSE "Open",
                              start |-> i, end |-> e]
                      closer == <<"<", "/">> \o name \o <<">">>
                      found == {k \in e..(Len(c) - Len(closer)) :
                                  slice(c, k, k + Len(closer)) = closer}
                  IN  IF selfClose \/ name # <<"s", "t", "y", "l", "e">> THEN <<tag>> \o scan(c, e)
                      ELSE IF found = {} THEN <<tag>>
                      ELSE LET k == CHOOSE m \in found : \A o \in found : m <= o IN
                           <<tag, [name |-> name, type |-> "Close",
                                   start |-> k, end |-> k + Len(closer)]>>
                           \o scan(c, k + Len(closer))

\* attributes(tag, name), read from offset j of the tag's text on: the name
\* of each attribute and, if it has one, its value with the quotes and the
\* offsets of the value in the tag
RECURSIVE attributes(_, _)
attributes(tag, j) ==
    IF j >= Len(tag) THEN <<>>
    ELSE IF tag[j + 1] \in NameStop THEN attributes(tag, j + 1)
    ELSE LET n == runEnd(tag, j, NameStop) IN
         IF n < Len(tag) /\ tag[n + 1] = "="
         THEN LET vs == n + 1
                  ve == IF vs < Len(tag) /\ isQuote(tag[vs + 1])
                        THEN Min(runEnd(tag, vs + 1, {tag[vs + 1]}) + 1, Len(tag))
                        ELSE runEnd(tag, vs, Space \cup {">"})
              IN  <<[name |-> slice(tag, j, n), hasValue |-> TRUE,
                     value |-> slice(tag, vs, ve),
                     valueStart |-> vs, valueEnd |-> ve]>> \o attributes(tag, ve)
         ELSE <<[name |-> slice(tag, j, n), hasValue |-> FALSE, value |-> <<>>,
                 valueStart |-> -1, valueEnd |-> -1]>> \o attributes(tag, n)

\* variant: the range of the value with its quotes
attributeValueRange_quoted(tag, attr, offset) ==
    <<offset + attr.valueStart, offset + attr.valueEnd>>

attributeValueRange(tag, attr, offset) ==
    LET valueStart == IF isQuote(tag[attr.valueStart + 1])
                      THEN attr.valueStart + 1 ELSE attr.valueStart
        valueEnd == IF isQuote(tag[attr.valueEnd]) /\ attr.valueEnd > valueStart
                    THEN attr.valueEnd - 1 ELSE attr.valueEnd
    IN  <<offset + valueStart, offset + valueEnd>>

\* variant: no element is void
isSelfClose_never(name, xml) == FALSE

\* options.empty holds the void elements; `br` is the one among the names of
\* the documents
isSelfClose(name, xml) == ~xml /\ name \in {<<"b", "r">>}

isQuotedString(str) == Len(str) > 1 /\ isQuote(str[1]) /\ str[1] = str[Len(str)]

NoPayload == [has |-> FALSE, name |-> <<>>, attributes |-> <<>>]

\* the name and the attributes of the enclosing element, quotes stripped
createHTMLAbbreviationContext(c, tag) ==
    LET attrs == attributes(slice(c, tag.start, tag.end), 1 + Len(tag.name)) IN
    [has |-> TRUE, name |-> tag.name,
     attributes |-> [k \in 1..Len(attrs) |->
        <<attrs[k].name,
          IF isQuotedString(attrs[k].value)
          THEN slice(attrs[k].value, 1, Len(attrs[k].value) - 1)
          ELSE attrs[k].value>>]]

\* the property of an inline style at pos: a caret behind the `:` of a
\* property is in the context of its name
createCSSAbbreviationContext(code, pos) ==
    LET colons == {k \in 1..Len(code) : code[k] = ":"} IN
    IF colons = {} THEN NoPayload
    ELSE LET k == CHOOSE m \in colons : \A o \in colons : m <= o IN
         IF pos >= k
         THEN [has |-> TRUE, name |-> slice(code, 0, k - 1), attributes |-> <<>>]
         ELSE NoPayload

NoResult == [legal |-> FALSE, syntax |-> "", inline |-> FALSE, context |-> NoPayload]

\* the syntax of the content of a `style` element: the value of the first
\* `type` attribute whose value, as the attribute reader gives it, is the name
\* of a CSS dialect
getSyntaxForStyleTag(c, tag) ==
    LET attrs == attributes(slice(c, tag.start, tag.end), 1 + Len(tag.name))
        named(v) == CASE v = <<"c", "s", "s">> -> "css"
                      [] v = <<"s", "c", "s", "s">> -> "scss"
                      [] v = <<"l", "e", "s", "s">> -> "less"
                      [] OTHER -> ""
        types == {a \in 1..Len(attrs) :
                    attrs[a].name = <<"t", "y", "p", "e">> /\ isCSS(named(attrs[a].value))}
    IN  IF types = {} THEN "css"
        ELSE named(attrs[CHOOSE a \in types : \A b \in types : a <= b].value)

\* the part of getHTMLContext behind the scan: the context of the result is
\* taken from the innermost open element
finish(result, stack, offset, pos, c) ==
    IF ~result.legal \/ stack = <<>> THEN result
    ELSE LET lastTag == stack[Len(stack)] IN
         IF lastTag.name = <<"s", "t", "y", "l", "e">> /\ pos >= lastTag.end
         THEN LET context == getCSSContext(slice(c, lastTag.end, offset),
                                           pos - lastTag.end) IN
              IF ~context.legal THEN NoResult
              ELSE [result EXCEPT !.syntax = getSyntaxForStyleTag(c, lastTag),
                       !.context = [has |-> TRUE, name |-> context.name,
                                    attributes |-> <<>>]]
         ELSE IF ~isCSS(result.syntax)
         THEN [result EXCEPT !.context = createHTMLAbbreviationContext(c, lastTag)]
         ELSE result

\* the scan callback of getHTMLContext from the k-th tag on
RECURSIVE walk(_, _, _, _, _, _, _)
walk(tokens, k, pos, xml, stack, offset, c) ==
    LET result == [legal |-> TRUE, syntax |-> "html", inline |-> FALSE,
                   context |-> NoPayload] IN
    IF k > Len(tokens) THEN finish(result, stack, offset, pos, c)
    ELSE IF tokens[k].start >= pos THEN finish(result, stack, tokens[k].start, pos, c)
    ELSE LET t == tokens[k]
             type == IF t.type = "Open" /\ isSelfClose(t.name, xml)
                     THEN "SelfClose" ELSE t.type
             pushed == IF type = "Open" THEN Append(stack, t)
                       ELSE IF type = "Close" /\ stack # <<>>
                               /\ stack[Len(stack)].name = t.name
                       THEN SubSeq(stack, 1, Len(stack) - 1)
                       ELSE stack
             tag == slice(c, t.start, t.end)
             attrs == attributes(tag, 1 + Len(t.name))
             hits == {a \in 1..Len(attrs) :
                        /\ attrs[a].name = <<"s", "t", "y", "l", "e">>
                        /\ attrs[a].hasValue
                        /\ LET range == attributeValueRange(tag, attrs[a], t.start) IN
                           pos >= range[1] /\ pos <= range[2]}
         IN  IF t.end <= pos THEN walk(tokens, k + 1, pos, xml, pushed, t.start, c)
             ELSE IF type \in {"Open", "SelfClose"} /\ hits # {}
             THEN LET a == CHOOSE m \in hits : \A o \in hits : m <= o
                      range == attributeValueRange(tag, attrs[a], t.start)
                  IN  finish([result EXCEPT !.syntax = "css", !.inline = TRUE,
                                 !.context = createCSSAbbreviationContext(
                                     slice(c, range[1], range[2]), pos - range[1])],
                             pushed, t.start, pos, c)
             ELSE NoResult

getHTMLContext(c, pos, xml) == walk(scan(c, 0), 1, pos, xml, <<>>, 0, c)

\* getHTMLContext(content, caret, xml) is called once
HtmlClassify ==
    /\ last.op = "init"
    /\ LET result == getHTMLContext(content, caret, isXML(syntax)) IN
       last' = [last EXCEPT !.op = "getHTMLContext",
                            !.res = IF result.legal THEN "legal" ELSE "illegal",
                            !.ctx = result]
    /\ UNCHANGED <<content, caret, cache, lastPos, syntax, enabled>>

HtmlInit ==
    /\ content \in HtmlDocs(HtmlMaxLen) \cup HtmlSamples
    /\ caret \in 0..Len(content)
    /\ cache = NoCache
    /\ lastPos = Null
    /\ syntax \in {"html", "xml"}
    /\ enabled = TRUE
    /\ last = [op |-> "init", res |-> "none", delta |-> 0, ctx |-> "notcalled",
               started |-> FALSE, halted |-> FALSE, edits |-> 0,
               shown |-> <<>>, before |-> NullAbbr]

HtmlNext == HtmlClassify

HtmlSpec == HtmlInit /\ [][HtmlNext]_vars

\* ------------------------------------------------------ properties of Spec
EditOps == {"input", "paired", "backspace", "del"}

\* the tracker before and after a step
Tracker == getTracker(cache)
TrackerAfter == getTracker(cache')

\* C1: every tracker that is in the registry when startTracking, handleChange
\* or handleSelectionChange has returned has range.start <= range.end
C1_RangeOrderedOnReturn ==
    (last.res # "threw" /\ hasTracker(cache)) => Tracker.range[1] <= Tracker.range[2]

\* C2: a tracker in the registry has an empty range only if it is forced, and
\* a tracker that is not forced has range.start < range.end
C2_EmptyOnlyIfForced ==
    hasTracker(cache) =>
        /\ Tracker.range[1] = Tracker.range[2] => Tracker.forced
        /\ ~Tracker.forced => Tracker.range[1] < Tracker.range[2]

\* a forced tracker whose range a Backspace has left empty
C2_Witness ==
    /\ hasTracker(cache)
    /\ Tracker.forced
    /\ Tracker.range[1] = Tracker.range[2]
    /\ last.op = "backspace"
    /\ last.res = "kept"

\* an edit replaces the n characters from offset at by m characters; a
\* character at offset i of the old text that the edit leaves in the text is
\* at offset moved(i) of the new one, and it is inside the range after the
\* edit exactly if it was inside the range before it
RangeFollows(at, n, m) ==
    (hasTracker(cache) /\ hasTracker(cache') /\ last'.res = "kept") =>
        \A i \in 0..(Len(content) - 1) :
            (i < at \/ i >= at + n) =>
                LET j == IF i < at THEN i ELSE i - n + m IN
                    (Tracker.range[1] <= i /\ i < Tracker.range[2])
                        <=> (TrackerAfter.range[1] <= j /\ j < TrackerAfter.range[2])

\* C3: while a tracker exists, after every edit the range holds exactly the
\* characters of the abbreviation as edited: no character that was outside
\* of it is inside afterwards, no surviving character of it is left outside
C3_RangeHoldsAbbreviation ==
    [][/\ \A n \in 0..MaxSel, text \in Texts :
              input(n, text) => RangeFollows(caret, n, Len(text))
       /\ \A n \in 0..MaxSel :
              inputPaired(n) => RangeFollows(caret, n, Len(PairedText))
       /\ \A n \in 1..MaxSel :
              (backspace(n) \/ del(n)) => RangeFollows(caret, n, 0)
       /\ backspace(0) => RangeFollows(caret - 1, 1, 0)
       /\ del(0) => RangeFollows(caret, 1, 0)]_vars

\* C4: a change callback that finds lastPos outside of [range.start, range.end]
\* removes the tracker and returns none, and the document keeps the text of
\* the edit
C4_OutsideEditDestroys ==
    [][(/\ last'.op \in EditOps
        /\ hasTracker(cache)
        /\ (Tracker.lastPos < Tracker.range[1] \/ Tracker.lastPos > Tracker.range[2]))
       => (/\ ~hasTracker(cache')
           /\ last'.res = "outside"
           /\ Len(content') = Tracker.lastLength + last'.delta)]_vars

\* C5: on delta > 0 with lastPos in [range.start, range.end], both ends
\* included, range.end grows by delta and range.start stays (by 1 for a typed
\* character, by 2 for `[` with the `]` the host inserts); the tracker leaves
\* the registry only as an expanded abbreviation
C5_InsertExtendsEnd ==
    [][(/\ last'.op \in EditOps
        /\ hasTracker(cache)
        /\ last'.delta > 0
        /\ Tracker.range[1] <= Tracker.lastPos
        /\ Tracker.lastPos <= Tracker.range[2])
       => IF hasTracker(cache')
          THEN TrackerAfter.range = <<Tracker.range[1], Tracker.range[2] + last'.delta>>
          ELSE last'.res = "expanded"]_vars

\* `[` typed in a tracked abbreviation with `]` inserted by the host: the
\* range holds both
C5_Witness ==
    /\ last.op = "paired"
    /\ last.res = "kept"
    /\ last.delta = 2
    /\ hasTracker(cache)
    /\ Tracker.range[2] - Tracker.range[1] >= 3
    /\ substr(content, <<Tracker.range[2] - 2, Tracker.range[2]>>) = PairedText

\* the range handleChange has after its adjustment, for a tracker it adjusts
Adjusted == adjustRange(Tracker, Tracker.lastPos, last'.delta).range

\* C6: if after the adjustment range.end <= range.start and the tracker is
\* not forced, the tracker is removed and handleChange returns none
C6_InvalidRangeDestroys ==
    [][(/\ last'.op \in EditOps
        /\ hasTracker(cache)
        /\ Tracker.range[1] <= Tracker.lastPos
        /\ Tracker.lastPos <= Tracker.range[2]
        /\ Adjusted[2] <= Adjusted[1]
        /\ ~Tracker.forced)
       => (~hasTracker(cache') /\ last'.res = "invalid")]_vars

\* handleChange has removed a tracker whose range an edit has emptied
C6_Witness ==
    /\ last.res = "invalid"
    /\ last.delta < 0
    /\ ~hasTracker(cache)

\* C7: handleSelectionChange sets lastPos of the document's tracker to the
\* given offset and changes nothing else of it (range, lastLength, parsed
\* abbreviation) nor the document; a second call with the same offset changes
\* nothing; without a tracker it changes nothing
C7_SelectionSetsLastPosOnly ==
    [][last'.op = "select"
       => (/\ content' = content
           /\ IF hasTracker(cache)
              THEN /\ hasTracker(cache')
                   /\ TrackerAfter = [Tracker EXCEPT !.lastPos = caret']
                   /\ TrackerAfter.range = Tracker.range
                   /\ TrackerAfter.lastLength = Tracker.lastLength
                   /\ TrackerAfter.abbreviation = Tracker.abbreviation
              ELSE cache' = cache
           /\ LET w == [content |-> content', caret |-> caret', cache |-> cache']
              IN  handleSelectionChange(w, caret') = w)]_vars

\* the caret has been moved behind the range of a tracker
C7_Witness ==
    /\ last.op = "select"
    /\ hasTracker(cache)
    /\ Tracker.lastPos = caret
    /\ caret > Tracker.range[2]
    /\ Tracker.abbreviation.type = "abbreviation"

\* ------------------------------------------------ properties of PolicySpec
\* C8: while a tracker exists, every selection-change event sets the tracker's
\* lastPos to the new caret offset (so that handleChange sees an edit made
\* after a caret move out of the range as an edit outside of it)
C8_SelectionUpdatesTracker ==
    [][(last'.op = "select" /\ hasTracker(cache))
       => (hasTracker(cache') /\ TrackerAfter.lastPos = caret')]_vars

\* handleChange returned no tracker
NoTrackerLeft == {"none", "outside", "invalid", "expanded"}

\* C9: a change callback starts a tracker only if handleChange has left no
\* tracker and the caret is exactly one behind the caret that the previous
\* change or selection callback has recorded; never on the first event
C9_StartsOnlyOnSingleStep ==
    [][(\/ last'.started
        \/ (last'.op \in EditOps /\ last'.res \in NoTrackerLeft /\ hasTracker(cache')))
       => (/\ last'.op \in EditOps
           /\ last'.res \in NoTrackerLeft
           /\ lastPos # Null
           /\ caret' = lastPos + 1)]_vars

\* a typed character has started a tracker
C9_Witness ==
    /\ last.op = "input"
    /\ last.started
    /\ hasTracker(cache)
    /\ Tracker.range = <<caret - 1, caret>>

\* C10: when startAbbreviationTracking is called with the caret at a place
\* without a legal activation context (inside of an HTML tag), it creates no
\* tracker and the registry stays as it was, empty
C10_NoContextNoTracker ==
    [][(/\ last'.op \in EditOps
        /\ last'.ctx # "notcalled"
        /\ isHTML(syntax)
        /\ insideTag(content', 0, caret'))
       => (/\ ~last'.started
           /\ last'.ctx \in {"skipped", "none"}
           /\ ~hasTracker(cache')
           /\ last'.res \in NoTrackerLeft)]_vars

\* an abbreviation start typed inside of a tag: the classifier has said no
C10_Witness ==
    /\ last.op = "input"
    /\ last.ctx = "none"
    /\ insideTag(content, 0, caret)
    /\ ~hasTracker(cache)

\* ------------------------------------------------ properties of ForcedSpec
\* the parsed outcomes of the texts of the alphabet
Outcomes ==
    {NullAbbr} \cup {parseAbbreviation(t) : t \in {<<"d">>, <<" ">>, <<"d", " ">>, <<"d", "[">>, <<"<", "d", ">">>, <<"d", tabStop>>}}

\* C11: shouldStopTracking is false for a forced tracker, whatever its parsed
\* outcome, its range and the caret, and the policy step of a change callback
\* leaves a forced tracker that handleChange has kept in the registry
C11_ForcedNeverStopped ==
    [][/\ (hasTracker(cache') /\ TrackerAfter.forced) =>
            \A pos \in 0..(Len(content') + 1), a \in Outcomes :
                ~shouldStopTracking([TrackerAfter EXCEPT !.abbreviation = a], pos)
       /\ (/\ last'.op \in EditOps
           /\ hasTracker(cache)
           /\ Tracker.forced
           /\ last'.res = "kept")
          => (hasTracker(cache') /\ TrackerAfter.forced)]_vars

\* a forced tracker is kept with an invalid character typed at its end, where
\* a tracker that is not forced is stopped
C11_Witness ==
    /\ last.op = "input"
    /\ last.res = "kept"
    /\ hasTracker(cache)
    /\ Tracker.forced
    /\ Tracker.abbreviation.type = "error"
    /\ Tracker.range[2] = caret

\* C12: a step in which stopTracking is called leaves no entry in the
\* registry; called as the command emmet.clear-marker (skipRemove not given)
\* it deletes the text of the range if the tracker is forced and leaves the
\* text alone if it is not; called by handleChange for an edit outside of the
\* range it leaves no entry either
C12_StopTrackingFrame ==
    [][/\ last'.op = "stop" =>
            /\ ~hasTracker(cache')
            /\ content' = IF Tracker.forced
                          THEN editDelete(content, Tracker.range[1], Tracker.range[2])
                          ELSE content
       /\ (/\ last'.op \in EditOps
           /\ hasTracker(cache)
           /\ (Tracker.lastPos < Tracker.range[1] \/ Tracker.lastPos > Tracker.range[2]))
          => ~hasTracker(cache')]_vars

\* the events that run the change callback
ChangeOps == EditOps \cup {"accept"}

\* the tracker as handleChange has adjusted it, and the text it then reads
AdjustedTracker == adjustRange(Tracker, Tracker.lastPos, last'.delta)
TextRead == sliceFrom(substr(content', AdjustedTracker.range), AdjustedTracker.offset)

\* handleChange has come to reparse a tracked text that cannot be parsed
Unparsable ==
    /\ last'.op \in ChangeOps
    /\ hasTracker(cache)
    /\ Tracker.range[1] <= Tracker.lastPos
    /\ Tracker.lastPos <= Tracker.range[2]
    /\ isValidRange(AdjustedTracker)
    /\ inBounds(content', AdjustedTracker.range)
    /\ TextRead # <<>>
    /\ scanAbbr(TextRead, 1, 0) >= 0

\* C13: when the tracked text cannot be parsed, no exception leaves
\* handleChange; it returns the tracker, whose outcome is the error with the
\* raw text and the error offset, unless the text is the preview of the valid
\* abbreviation before (the accepted completion), where it removes the
\* tracker
C13_ParseErrorStays ==
    [][Unparsable =>
        /\ last'.res \in {"kept", "expanded"}
        /\ last'.res = "expanded" =>
                /\ ~hasTracker(cache')
                /\ Tracker.abbreviation.type = "abbreviation"
                /\ Tracker.abbreviation.preview = TextRead
        /\ hasTracker(cache') =>
                TrackerAfter.abbreviation =
                    [type |-> "error", abbr |-> TextRead, pos |-> scanAbbr(TextRead, 1, 0)]]_vars

\* C14: provideCompletionItems, asked at any position p of the document and
\* for any reason, returns an Emmet expansion item only if on return the
\* document has a tracker whose outcome is a valid abbreviation and whose
\* range has range.start <= p <= range.end; the item's range is the tracked
\* range and its label the tracked abbreviation text
C14_ItemOnlyForValidTracker ==
    \A p \in 0..Len(content), invoke \in BOOLEAN :
        provideCompletionItems(World, p, invoke).items # <<>> =>
            /\ Len(provideCompletionItems(World, p, invoke).items) = 1
            /\ hasTracker(provideCompletionItems(World, p, invoke).w.cache)
            /\ LET t    == getTracker(provideCompletionItems(World, p, invoke).w.cache)
                   item == provideCompletionItems(World, p, invoke).items[1]
               IN  /\ t.abbreviation.type = "abbreviation"
                   /\ t.range[1] <= p
                   /\ p <= t.range[2]
                   /\ item.range = t.range
                   /\ item.label = t.abbreviation.abbr
                   /\ Running => item.label = sliceFrom(substr(content, t.range), t.offset)

\* the provider has returned the item for a tracker that does not cover the
\* whole document
C14_Witness ==
    /\ last.op = "complete"
    /\ last.res = "item"
    /\ hasTracker(cache)
    /\ Tracker.abbreviation.type = "abbreviation"
    /\ contains(Tracker, caret)
    /\ Tracker.range[2] < Len(content)

\* the command was left without an exception, has shown one message, which
\* names the offset pos, and has not changed the document
ShownOnce(pos) ==
    /\ last'.res = "caught"
    /\ Len(last'.shown) = 1
    /\ last'.shown[1].pos = pos
    /\ content' = content

\* C15: when expand() fails in emmet.expand-abbreviation (or in
\* emmet.wrap-with-abbreviation) the failure is caught in the command, one
\* message is shown that names the error offset, offset 0 too, and the
\* document is unchanged
C15_ExpandFailureShown ==
    [][/\ (/\ ExpandAbbreviation
           /\ extracted # <<>>
           /\ parseAbbreviation(extracted).type = "error")
          => ShownOnce(parseAbbreviation(extracted).pos)
       /\ \A value \in ValuesEntered :
            (/\ WrapWithAbbreviation(value)
             /\ parseAbbreviation(value).type = "error")
            => ShownOnce(parseAbbreviation(value).pos)]_vars

\* C16: when the destroy callback of a closed document has run the registry
\* has no entry for that document, and after every event the documents that
\* have an entry in the registry are open
C16_ClosedDocumentsPurged ==
    [][/\ \A u \in Uris : CloseEditor(u) => getId(u) \notin DOMAIN cache'
       /\ DOMAIN cache' \subseteq DOMAIN content']_vars

\* a document that had a tracker has been closed while another document
\* with a tracker is open
C16_Witness ==
    /\ last.op = "close"
    /\ last.res = "removed"
    /\ DOMAIN cache # {}

\* the tokens of the source, and the classifier's result for source and caret
Tokens == scanCSS(content, 0, -1, -1, -1, -1)
Classified == last.op = "getCSSContext"
Legal == last.res = "legal"

\* the caret is inside the token, or at its end
Inside(token) == token.start < caret /\ caret <= token.end

\* the tokens that start before the caret
Passed == {k \in 1..Len(Tokens) : Tokens[k].start < caret}

\* the property name that is active at the caret: the name of the last
\* property before the caret if its value has not been passed
ActiveName ==
    LET props == {k \in Passed : Tokens[k].type \in {"PropertyName", "PropertyValue"}} IN
    IF props = {} THEN <<>>
    ELSE LET k == CHOOSE m \in props : \A n \in props : n <= m IN
         IF Tokens[k].type = "PropertyName"
         THEN slice(content, Tokens[k].start, Tokens[k].end)
         ELSE <<>>

\* the section-nesting counter at the caret
Nesting ==
    Cardinality({k \in Passed : Tokens[k].type = "Selector"})
    - Cardinality({k \in Passed : Tokens[k].type = "BlockEnd"})

\* C17: when the caret is inside a token (or at its end) the result is legal
\* only if the token is a property value; inside a selector or a property
\* name the result is illegal
C17_InsideTokenOnlyValueLegal ==
    Classified =>
        \A k \in 1..Len(Tokens) :
            Inside(Tokens[k]) =>
                /\ Legal => Tokens[k].type = "PropertyValue"
                /\ Tokens[k].type \in {"Selector", "PropertyName"} => ~Legal

\* the caret at the end of a property value in a block: legal, with the name
\* of the property
C17_Witness ==
    /\ Classified
    /\ Legal
    /\ last.ctx # <<>>
    /\ \E k \in 1..Len(Tokens) :
          /\ Inside(Tokens[k])
          /\ Tokens[k].type = "PropertyValue"
          /\ Tokens[k].end = caret

C19_InsideNameLegal ==
    (Classified /\ content = ScssSample /\ caret > 0 /\ caret < 4)
        => (Legal /\ last.ctx = <<"$", "f", "o", "o">>)

\* C19, amended: in `$foo: 1;` followed by a rule, the offset behind the
\* colon of `$foo:` and before the value gives the legal context named
\* `$foo`; the offsets inside the name `$foo` and at its end are illegal, and
\* so is the offset behind the `;`
C19_AfterColonLegal ==
    (Classified /\ content = ScssSample) =>
        /\ caret = 5 => (Legal /\ last.ctx = <<"$", "f", "o", "o">>)
        /\ (caret > 0 /\ caret <= 4) => ~Legal
        /\ caret = 8 => ~Legal

\* the offset behind the colon of `$foo:` has been classified
C19_Witness ==
    /\ Classified
    /\ content = ScssSample
    /\ caret = 5
    /\ Legal

\* the tags of the document, and the markup classifier has been applied
Tags == scan(content, 0)
HtmlClassified == last.op = "getHTMLContext"

\* the caret is strictly inside the source range of the tag
StrictlyInside(tag) == tag.start < caret /\ caret < tag.end

\* the ranges of the values of the tag's `style` attributes, without the
\* quotes of a quoted value
StyleValueRanges(tag) ==
    LET attrs == attributes(slice(content, tag.start, tag.end), 1 + Len(tag.name)) IN
    {<<tag.start + attrs[a].valueStart + (IF isQuotedString(attrs[a].value) THEN 1 ELSE 0),
       tag.start + attrs[a].valueEnd - (IF isQuotedString(attrs[a].value) THEN 1 ELSE 0)>> :
        a \in {b \in 1..Len(attrs) :
                 attrs[b].name = <<"s", "t", "y", "l", "e">> /\ attrs[b].hasValue}}

InStyleValue(tag) ==
    \E range \in StyleValueRanges(tag) : range[1] <= caret /\ caret <= range[2]

\* C20: a caret strictly inside an open or self-closing tag is illegal,
\* unless it is in the unquoted range of the value of a `style` attribute of
\* the tag: then the result is a stylesheet context with inline = true; a
\* caret strictly inside a closing tag is illegal
C20_InsideTag ==
    HtmlClassified =>
        \A k \in 1..Len(Tags) :
            StrictlyInside(Tags[k]) =>
                IF Tags[k].type # "Close" /\ InStyleValue(Tags[k])
                THEN /\ last.res = "legal"
                     /\ isCSS(last.ctx.syntax)
                     /\ last.ctx.inline
                ELSE last.res = "illegal"

\* the caret in the quoted value of the style attribute of an open tag that
\* follows another open tag: an inline stylesheet context
C20_Witness ==
    /\ HtmlClassified
    /\ last.res = "legal"
    /\ last.ctx.inline
    /\ \E k \in 2..Len(Tags) :
          /\ Tags[k].type = "Open"
          /\ StrictlyInside(Tags[k])
          /\ InStyleValue(Tags[k])
          /\ content[caret] = "\""

\* the indices of the tags that are open and not closed at the caret,
\* innermost last, from the k-th tag on: an open tag that is neither
\* self-closing nor a void element of the HTML dialect opens an element, a
\* closing tag with the name of the innermost open element closes it
RECURSIVE OpenElements(_, _)
OpenElements(k, open) ==
    IF k > Len(Tags) \/ Tags[k].start >= caret THEN open
    ELSE IF Tags[k].type = "Open" /\ (syntax = "xml" \/ Tags[k].name # <<"b", "r">>)
    THEN OpenElements(k + 1, Append(open, k))
    ELSE IF /\ Tags[k].type = "Close"
            /\ open # <<>>
            /\ Tags[open[Len(open)]].name = Tags[k].name
    THEN OpenElements(k + 1, SubSeq(open, 1, Len(open) - 1))
    ELSE OpenElements(k + 1, open)

Enclosing == OpenElements(1, <<>>)

\* the innermost open element at the caret is a `style` element
InStyleElement ==
    /\ Enclosing # <<>>
    /\ Tags[Enclosing[Len(Enclosing)]].name = <<"s", "t", "y", "l", "e">>

\* the value of an attribute without its quotes
Unquoted(value) ==
    IF Len(value) > 1 /\ value[1] \in {"\"", "'"} /\ value[Len(value)] = value[1]
    THEN SubSeq(value, 2, Len(value) - 1)
    ELSE value

\* the attributes of the tag as pairs of name and unquoted value
AttributeMap(tag) ==
    LET attrs == attributes(slice(content, tag.start, tag.end), 1 + Len(tag.name)) IN
    [a \in 1..Len(attrs) |-> <<attrs[a].name, Unquoted(attrs[a].value)>>]

Dialect(tag) ==
    LET map == AttributeMap(tag)
        named(v) == CASE v = <<"s", "c", "s", "s">> -> "scss"
                      [] v = <<"l", "e", "s", "s">> -> "less"
                      [] OTHER -> "css"
        types == {a \in 1..Len(map) : map[a][1] = <<"t", "y", "p", "e">>}
    IN  IF types = {} THEN "css"
        ELSE named(map[CHOOSE a \in types : \A b \in types : a <= b][2])

\* C22: with the caret in the content of a `style` element that has a closing
\* tag, the result is the stylesheet classifier's result for that content at
\* the relative offset: illegal if that is none, and else a stylesheet
\* context that is not inline, has the stylesheet classifier's name, and has
\* the dialect `css` unless a `type` attribute names another CSS dialect
C22_StyleContent ==
    (/\ HtmlClassified
     /\ InStyleElement
     /\ \E k \in 1..Len(Tags) : Tags[k].start >= caret) =>
        LET tag == Tags[Enclosing[Len(Enclosing)]]
            k == CHOOSE m \in 1..Len(Tags) :
                    /\ Tags[m].start >= caret
                    /\ \A n \in 1..Len(Tags) : Tags[n].start >= caret => m <= n
            css == getCSSContext(slice(content, tag.end, Tags[k].start), caret - tag.end)
        IN  IF ~css.legal THEN last.res = "illegal"
            ELSE /\ last.res = "legal"
                 /\ ~last.ctx.inline
                 /\ last.ctx.context.name = css.name
                 /\ last.ctx.syntax = Dialect(tag)

\* handleChange has run on the tracker Before and has seen the document
\* shorter than at its last call
Before == last.before
Shrunk == last.op \in ChangeOps /\ Before # NullAbbr /\ last.delta < 0

\* C23: when handleChange sees delta < 0 and lastPos = range.start, it moves
\* range.start and range.end by delta, so that the length of the range is
\* unchanged; the tracker leaves the registry only as an expanded
\* abbreviation
C23_LeftEdgeShifts ==
    (Shrunk /\ Before.lastPos = Before.range[1]) =>
        IF hasTracker(cache)
        THEN /\ Tracker.range = <<Before.range[1] + last.delta,
                                  Before.range[2] + last.delta>>
             /\ Tracker.range[2] - Tracker.range[1]
                    = Before.range[2] - Before.range[1]
        ELSE last.res = "expanded"

\* a Backspace with the caret at the start of a range that is not empty: the
\* tracker is kept with its range moved
C23_Witness ==
    /\ Shrunk
    /\ last.op = "backspace"
    /\ last.res = "kept"
    /\ Before.lastPos = Before.range[1]
    /\ Before.range[1] < Before.range[2]
    /\ hasTracker(cache)
    /\ Tracker.range[1] = Before.range[1] - 1

\* C24: when handleChange sees delta < 0 and lastPos is in the range but not
\* at range.start, range.end is moved by delta only if the caret has moved
\* (lastPos differs from the new caret offset); a deletion that leaves the
\* caret where it was (a forward delete) leaves both bounds unchanged
C24_ExtendOnlyIfCaretMoved ==
    (/\ Shrunk
     /\ Before.range[1] < Before.lastPos
     /\ Before.lastPos <= Before.range[2]
     /\ hasTracker(cache)) =>
        Tracker.range = IF Before.lastPos # caret
                        THEN <<Before.range[1], Before.range[2] + last.delta>>
                        ELSE Before.range

\* handleChange has adjusted the tracker Before and has parsed its text anew
Readjusted == adjustRange(Before, Before.lastPos, last.delta)
Reparsed ==
    /\ last.op \in ChangeOps
    /\ Before # NullAbbr
    /\ contains(Before, Before.lastPos)
    /\ isValidRange(Readjusted)
    /\ canUpdate(Readjusted, content)

\* the text handleChange has parsed, and the three conditions of the
\* accepted completion: the text cannot be parsed, the outcome before was
\* valid, the text is the preview of that outcome
NewText == sliceFrom(substr(content, Readjusted.range), Readjusted.offset)
LooksExpanded ==
    /\ NewText # <<>>
    /\ parseAbbreviation(NewText).type = "error"
    /\ Before.abbreviation.type = "abbreviation"
    /\ NewText = Before.abbreviation.preview

\* C25: if after a change the new outcome is an error, the outcome before
\* was valid and the new text equals the preview of the outcome before,
\* handleChange removes the tracker and returns none; if one of the three
\* fails, this check does not remove the tracker
C25_AcceptedCompletionRemoves ==
    Reparsed =>
        IF LooksExpanded
        THEN last.res = "expanded"
        ELSE last.res = "kept"

\* ------------------------------------------------- properties of StartSpec
\* a character has been typed and the change callback has run
Typed == last.op \in {"input", "paired"} /\ caret >= 1

\* what startAbbreviationTracking does for the typed character
Begun ==
    startAbbreviationTracking([content |-> content, caret |-> caret, cache |-> NoCache],
                              caret)

\* the typed character is an opening bracket, brace or paren, and the next
\* character of the document closes it
BeforeCloser ==
    /\ caret < Len(content)
    /\ \/ content[caret] = "[" /\ content[caret + 1] = "]"
       \/ content[caret] = "{" /\ content[caret + 1] = "}"
       \/ content[caret] = "(" /\ content[caret + 1] = ")"

\* C26: a tracker the policy starts for a character typed at the caret pos
\* ends at pos + 1 where the typed character is an opening bracket, brace or
\* paren followed by its closer, and at pos otherwise; it starts at pos - 1,
\* and in a prefixed dialect at pos - 2 with the offset 1.
C26_StartedRange ==
    (Typed /\ last.started) =>
        /\ Begun.started
        /\ hasTracker(cache) => getTracker(cache).range = getTracker(Begun.w.cache).range
        /\ getTracker(Begun.w.cache).range[2] = IF BeforeCloser THEN caret + 1 ELSE caret
        /\ getTracker(Begun.w.cache).range[1] = IF syntax \in jsxSyntaxes THEN caret - 2 ELSE caret - 1
        /\ getTracker(Begun.w.cache).offset = IF syntax \in jsxSyntaxes THEN 1 ELSE 0

\* `[` typed before a `]`: the tracker ends behind the `]`
C26_Witness ==
    /\ Typed
    /\ last.started
    /\ BeforeCloser
    /\ hasTracker(cache)
    /\ getTracker(cache).range = <<caret - 1, caret + 1>>

\* the policy has taken the typed character of a stylesheet for the start
\* of an abbreviation: a tracker started, or started and removed again
TakenInStylesheet ==
    /\ Typed
    /\ syntax \in cssSyntaxes
    /\ last.started \/ last.ctx = "section"

\* C27, as stated: in a stylesheet no tracker starts unless the typed
\* character is a letter, `!` or `@` and the character before it is
\* whitespace, a quote or absent (not `>`, not `;`).
C27_NeitherAngleNorSemicolon ==
    TakenInStylesheet =>
        /\ content[caret] \in Letters \cup {"!", "@"}
        /\ caret = 1 \/ content[caret - 1] \in Space \cup {"\"", "'"}

\* C27, amended: in a stylesheet no tracker starts unless the typed
\* character is a letter, `!` or `@` and the character before it is
\* whitespace, `;`, a quote or absent (not `>`).
C27_StylesheetWordBound ==
    TakenInStylesheet =>
        /\ content[caret] \in Letters \cup {"!", "@"}
        /\ caret = 1 \/ content[caret - 1] \in Space \cup {";", "\"", "'"}

\* a letter typed behind a `;` of a stylesheet is tracked
C27_Witness ==
    /\ TakenInStylesheet
    /\ last.started
    /\ hasTracker(cache)
    /\ caret > 1
    /\ content[caret - 1] = ";"

\* the typed character makes a tracker in the section scope of a
\* stylesheet, and its preview is the character as a property without a
\* value
EmptyPropertyInSection ==
    /\ Typed
    /\ last.op = "input"
    /\ syntax \in cssSyntaxes
    /\ content[caret] \in Letters \cup {"!"}
    /\ caret = 1 \/ content[caret - 1] \in Space \cup {";"}
    /\ getActivationContext(content, caret).type = "stylesheet"
    /\ getActivationContext(content, caret).scope = Section
    /\ \E n \in 0..1 :
          parseStylesheetAbbreviation(<<content[caret]>>).preview
             = <<content[caret], ":">> \o [i \in 1..n |-> " "] \o <<";">>

\* C28: a tracker started in the section scope of a stylesheet with a valid
\* outcome whose preview is the tracked text, `:`, optional whitespace and
\* an optional `;` is removed in the same callback: no tracker is reported
\* and the registry has no entry for the document.
C28_FalsePositiveRemoved ==
    EmptyPropertyInSection => ~hasTracker(cache) /\ ~last.started

\* `x` typed at the top of a stylesheet
C28_Witness ==
    /\ EmptyPropertyInSection
    /\ last.ctx = "section"
    /\ ~hasTracker(cache)

\* -------------------------------------------------- properties of StopSpec
\* handleChange has returned the tracker, which is not forced, with the text
\* NewText parsed anew
ReturnedUnforced == Reparsed /\ last.res = "kept" /\ ~Before.forced

\* C29: shouldStopTracking is true for a tracker that is not forced whenever
\* its text has a carriage return, a line feed or the tab-stop marker,
\* whatever the outcome and the caret, and whenever it has no outcome (empty
\* text): the callback leaves no tracker.
C29_LineBreakOrTabStopStops ==
    (/\ ReturnedUnforced
     /\ \/ NewText = <<>>
        \/ \E i \in 1..Len(NewText) : NewText[i] \in {"\r", "\n", tabStop})
        => ~hasTracker(cache)

\* a line feed typed inside the abbreviation, the caret not at its end
C29_Witness ==
    /\ ReturnedUnforced
    /\ \E i \in 1..Len(NewText) : NewText[i] = "\n"
    /\ caret < Readjusted.range[2]
    /\ ~hasTracker(cache)

\* C30: shouldStopTracking is true for a tracker that is not forced whose
\* outcome is an error when the caret after the edit is at the end of the
\* range: the callback leaves no tracker.
C30_ErrorAtCaretStops ==
    (/\ ReturnedUnforced
     /\ NewText # <<>>
     /\ scanAbbr(NewText, 1, 0) >= 0
     /\ caret = Readjusted.range[2])
        => ~hasTracker(cache)

\* `]` typed at the end of an abbreviation that has no bracket open
C30_Witness ==
    /\ ReturnedUnforced
    /\ NewText # <<>>
    /\ scanAbbr(NewText, 1, 0) >= 0
    /\ caret = Readjusted.range[2]
    /\ NewText[Len(NewText)] = "]"
    /\ ~hasTracker(cache)

\* the offset of the error in NewText (-1: none), and whether the character
\* there is whitespace, a comma or a semicolon
ErrorPos == scanAbbr(NewText, 1, 0)
ErrorAtSeparator ==
    /\ ErrorPos + 1 \in 1..Len(NewText)
    /\ NewText[ErrorPos + 1] \in {" ", "\t", "\n", "\r", ",", ";"}

HasBreak == \E i \in 1..Len(NewText) : NewText[i] \in {"\r", "\n", tabStop}

\* C31: shouldStopTracking is true for a tracker that is not forced whose
\* outcome is an error at offset 0, at every caret: the callback leaves no
\* tracker.
C31_ErrorAtZeroStops ==
    (ReturnedUnforced /\ NewText # <<>> /\ ErrorPos = 0) => ~hasTracker(cache)

\* a space typed at the start of the abbreviation, the caret behind it
C31_Witness ==
    /\ ReturnedUnforced
    /\ Len(NewText) >= 2
    /\ ErrorPos = 0
    /\ ~HasBreak
    /\ caret < Readjusted.range[2]
    /\ Before.options.type = "markup"
    /\ ~hasTracker(cache)

\* C32: for a tracker that is not forced, in a stylesheet context, whose
\* outcome is an error, shouldStopTracking is true when the character at the
\* error offset is whitespace, a comma or a semicolon; in a markup context
\* such a character does not stop tracking where no other rule does (the
\* caret is inside the range, the error is not at offset 0, the text has no
\* line break and does not end with a closing pair character).
C32_StylesheetSeparatorStops ==
    (ReturnedUnforced /\ NewText # <<>> /\ ErrorPos >= 0 /\ ErrorAtSeparator) =>
        /\ Before.options.type = "stylesheet" => ~hasTracker(cache)
        /\ (/\ Before.options.type = "markup"
            /\ ErrorPos > 0
            /\ ~HasBreak
            /\ caret # Readjusted.range[2]
            /\ NewText[Len(NewText)] \notin {"}", "]", ")"})
                => hasTracker(cache)

\* a space typed inside `dd` of a stylesheet, the caret behind the space
C32_Witness ==
    /\ ReturnedUnforced
    /\ ErrorPos > 0
    /\ ErrorAtSeparator
    /\ ~HasBreak
    /\ caret # Readjusted.range[2]
    /\ NewText[Len(NewText)] \notin {"}", "]", ")"}
    /\ Before.options.type = "stylesheet"
    /\ ~hasTracker(cache)

\* the end of the range without the closing pair characters the tracked
\* text ends with
TrimmedEnd ==
    Readjusted.range[2]
        - (CHOOSE n \in 0..Len(NewText) :
              /\ \A i \in (Len(NewText) - n + 1)..Len(NewText) :
                    NewText[i] \in {"}", "]", ")"}
              /\ n < Len(NewText) => NewText[Len(NewText) - n] \notin {"}", "]", ")"})

\* an error outcome that none of the earlier rules of shouldStopTracking
\* decides
LeftToPairs ==
    /\ ReturnedUnforced
    /\ NewText # <<>>
    /\ ErrorPos > 0
    /\ ~HasBreak
    /\ caret # Readjusted.range[2]
    /\ ~(Before.options.type = "stylesheet" /\ ErrorAtSeparator)

\* C33: for an error outcome that no earlier rule decides, shouldStopTracking
\* is true exactly when the caret is at the end of the range less the
\* closing characters `}`, `]`, `)` the tracked text ends with: the tracker
\* is removed there and kept at any other caret.
C33_StopsBeforeTrailingPairs ==
    LeftToPairs => (hasTracker(cache) <=> caret # TrimmedEnd)

\* ------------------------------------------- properties of the completion
\* C34: the completion item built for a tracker with a valid outcome that is
\* flagged simple has no preview documentation, whatever the configuration;
\* the preview is its documentation only where the flag is false.
C34_SimpleHasNoPreview ==
    \A p \in 0..Len(content), invoke \in BOOLEAN, preview \in BOOLEAN :
        provideCompletionItems(World, p, invoke).items # <<>> =>
            LET t    == getTracker(provideCompletionItems(World, p, invoke).w.cache)
                item == provideCompletionItems(World, p, invoke).items[1]
            IN  /\ t.abbreviation.simple => item.documentation[preview] = <<>>
                /\ item.documentation[preview] # <<>> =>
                      /\ ~t.abbreviation.simple
                      /\ item.documentation[preview] = t.abbreviation.preview

\* ------------------------------------------------ properties of the frame
\* C35: a change or a move of the caret that leaves the tracker in the
\* registry leaves its forced flag, its offset and its options as
\* startTracking has set them.
C35_CreationFieldsKept ==
    [][(/\ last'.op \in EditOps \cup {"select"}
        /\ hasTracker(cache)
        /\ hasTracker(cache'))
          => /\ TrackerAfter.forced = Tracker.forced
             /\ TrackerAfter.offset = Tracker.offset
             /\ TrackerAfter.options = Tracker.options]_vars

\* a forced tracker whose range an insertion has extended
C35_Witness ==
    /\ last.op = "input"
    /\ last.res = "kept"
    /\ last.delta > 0
    /\ hasTracker(cache)
    /\ Tracker.forced
    /\ Before.forced
    /\ Tracker.range[2] > Before.range[2]

\* the tracker that handleChange found has its last caret outside of its
\* range, or the range that the change leaves is invalid
MustDestroy ==
    /\ last.op \in EditOps
    /\ Before # NullAbbr
    /\ \/ Before.lastPos < Before.range[1]
       \/ Before.lastPos > Before.range[2]
       \/ ~isValidRange(Readjusted)

\* C36: a tracker that handleChange must destroy (last caret outside of the
\* range, or range invalid) is destroyed, forced or not, and the document
\* keeps the text that the change has delivered.
C36_DestroyKeepsText ==
    MustDestroy
      => /\ ~hasTracker(cache)
         /\ last.res \in {"outside", "invalid"}
         /\ Len(content) = Before.lastLength + last.delta

\* C37: after a change callback, the range of a tracker in the registry
\* lies within the document: 0 <= range.start and range.end <= length.
C37_RangeWithinDocument ==
    (last.op \in EditOps /\ hasTracker(cache))
      => /\ 0 <= Tracker.range[1]
         /\ Tracker.range[2] <= Len(content)

\* C38: after a change callback that leaves a tracker in the registry, the
\* tracker that survived and the tracker that the callback has started
\* alike, tracker.lastPos is the caret and tracker.lastLength is the length
\* of the document.
C38_LastPosIsCaret ==
    (last.op \in ChangeOps /\ hasTracker(cache))
      => /\ Tracker.lastPos = caret
         /\ Tracker.lastLength = Len(content)

\* the change callback has found a tracker whose last caret was outside of
\* its range
EditedOutside ==
    /\ last.op \in EditOps
    /\ Before # NullAbbr
    /\ (Before.lastPos < Before.range[1] \/ Before.lastPos > Before.range[2])

Restarted(b, started, c) ==
    /\ started = b.started
    /\ hasTracker(c) => (b.started /\ getTracker(c) = getTracker(b.w.cache))

AdjustedOnce ==
    adjustRange(Tracker, Tracker.lastPos, Len(content') - Tracker.lastLength).range

\* C40: of the two change callbacks that one edit of a document with two
\* editors brings, the second finds the tracker with delta = 0 and leaves
\* its range as the first has left it; the range is readjusted once.
C40_SecondDeliveryKeepsRange ==
    [][(last'.op \in EditOps /\ last'.before # NullAbbr)
          => /\ last'.delta = 0
             /\ (last'.res = "kept" /\ hasTracker(cache'))
                   => TrackerAfter.range = last'.before.range
             /\ (hasTracker(cache) /\ ~last'.started /\ hasTracker(cache'))
                   => TrackerAfter.range = AdjustedOnce]_vars

\* a typed character has extended the range in the first callback; the
\* second, of an editor with its caret elsewhere, has kept the tracker
C40_Witness ==
    /\ last.op = "input"
    /\ Before # NullAbbr
    /\ last.res = "kept"
    /\ last.delta = 0
    /\ hasTracker(cache)
    /\ Tracker.range = Before.range
    /\ Tracker.range[2] = Before.lastPos
    /\ Tracker.lastPos # caret
    /\ Before.lastLength = Len(content)

====
